---- MODULE Spec2Model ----
(***************************************************************************)
(* A model of latex2cs/lib/calc.py: the pyparsing grammar of               *)
(* ParseAugmenter.parse_algebra, the evaluator() reduction and the         *)
(* latex_preview() rendering.                                              *)
(*                                                                         *)
(* Text is modelled as a sequence of one-character strings, so that the    *)
(* scanner can index it; results handed back to the caller (LaTeX, error   *)
(* messages) are TLA+ strings built by concatenation.                      *)
(*                                                                         *)
(* Numbers are exact decimals-with-denominator (n/d)*10^e in canonical     *)
(* form; float rounding and overflow to inf are not modelled.              *)
(***************************************************************************)
EXTENDS Integers, Sequences, FiniteSets, TLC

VARIABLES
    math_expr,        \* the expression handed to the call (sequence of characters)
    variables,        \* caller's variables: sequence of <<name, value>> in insertion order
    functions,        \* caller's functions: sequence of <<name, function id>>
    case_sensitive,   \* the case_sensitive argument
    call,             \* which entry point ran last: "none", "evaluator", "latex_preview"
    result,           \* what the call returned or raised
    steps,            \* the steps the call went through, in order
    variables_used,   \* ParseAugmenter.variables_used after the call
    functions_used,   \* ParseAugmenter.functions_used after the call
    tree,             \* ParseAugmenter.tree after the call
    all_variables,    \* the merged variable environment the call built
    all_functions,    \* the merged function environment the call built
    default_variables,  \* the module's DEFAULT_VARIABLES as it stands
    default_functions,  \* the module's DEFAULT_FUNCTIONS as it stands
    suffixes,         \* the module's SUFFIXES as it stands
    noted,            \* a call the caller has kept a note of, with its result
    xhtml,            \* the document the converter's filters hand on
    converters,       \* the latex2cs instances constructed so far, with their fields
    DEFAULT_NPOINTS,  \* the class attribute AnswerBox.DEFAULT_NPOINTS as it stands
    history           \* the converter calls made so far, each with what it returned

\* What the converter side of the package keeps.
docvars == <<xhtml, converters, DEFAULT_NPOINTS, history>>

vars == <<math_expr, variables, functions, case_sensitive, call, result, steps,
          variables_used, functions_used, tree, all_variables, all_functions,
          default_variables, default_functions, suffixes, noted,
          xhtml, converters, DEFAULT_NPOINTS, history>>

(***************************************************************************)
(* Characters                                                              *)
(***************************************************************************)
nums == {"0", "1", "2", "3", "4", "5", "6", "7", "8", "9"}

UpperSeq == <<"A", "B", "C", "D", "E", "F", "G", "H", "I", "J", "K", "L", "M",
              "N", "O", "P", "Q", "R", "S", "T", "U", "V", "W", "X", "Y", "Z">>

LowerSeq == <<"a", "b", "c", "d", "e", "f", "g", "h", "i", "j", "k", "l", "m",
              "n", "o", "p", "q", "r", "s", "t", "u", "v", "w", "x", "y", "z">>

Range(seq) == {seq[i] : i \in DOMAIN seq}

alphas == Range(UpperSeq) \cup Range(LowerSeq)

alphanums == alphas \cup nums

\* The characters pyparsing skips before a token (its default whitespace).
PyparsingWhite == {" ", "\t", "\n", "\r"}

\* The characters str.strip() removes: pyparsing's four and the other
\* whitespace of Python, for which the form feed stands here.
StripWhite == PyparsingWhite \cup {"\f"}

\* The keys of SUFFIXES.
SuffixChars == {"%", "k", "M", "G", "T", "c", "m", "u", "n", "p"}

\* str.lower() on one character.
LowerChar(c) ==
    IF c \in Range(UpperSeq)
    THEN LowerSeq[CHOOSE i \in DOMAIN UpperSeq : UpperSeq[i] = c]
    ELSE c

\* str.lower()
Lower(s) == [i \in DOMAIN s |-> LowerChar(s[i])]

\* "".join(chars) as a string
RECURSIVE Str(_)
Str(s) == IF s = <<>> THEN "" ELSE s[1] \o Str(Tail(s))

\* The order of the characters by code point, as sorted() compares them.
CodeOrder == <<"\t", "\n", "\f", "\r", " ", "$", "%", "(", ")", "*", "+", "-", ".", "/">>
             \o <<"0", "1", "2", "3", "4", "5", "6", "7", "8", "9">>
             \o UpperSeq \o <<"^", "_">> \o LowerSeq \o <<"|">>

Ord(c) == CHOOSE i \in DOMAIN CodeOrder : CodeOrder[i] = c

\* s < t as Python compares two strings
RECURSIVE StrLess(_, _)
StrLess(s, t) ==
    IF t = <<>> THEN FALSE
    ELSE IF s = <<>> THEN TRUE
    ELSE IF s[1] = t[1] THEN StrLess(Tail(s), Tail(t))
    ELSE Ord(s[1]) < Ord(t[1])

\* sorted(set of strings)
RECURSIVE Sorted(_)
Sorted(S) ==
    IF S = {} THEN <<>>
    ELSE LET least == CHOOSE s \in S : \A t \in S \ {s} : StrLess(s, t)
         IN  <<least>> \o Sorted(S \ {least})

\* ' '.join(seq of strings)
RECURSIVE JoinSpace(_)
JoinSpace(seq) ==
    IF seq = <<>> THEN ""
    ELSE IF Len(seq) = 1 THEN Str(seq[1])
    ELSE Str(seq[1]) \o " " \o JoinSpace(Tail(seq))

(***************************************************************************)
(* Parse tree: a node is a named group with children, or a terminal token  *)
(***************************************************************************)
Tok(s) == [name |-> "tok", kids |-> <<>>, s |-> s]

Grp(name, kids) == [name |-> name, kids |-> kids, s |-> <<>>]

NoTree == Grp("none", <<>>)

(***************************************************************************)
(* Scanner primitives of pyparsing                                         *)
(***************************************************************************)
\* The first position at or after pos that holds no skipped whitespace.
RECURSIVE SkipWhitespace(_, _)
SkipWhitespace(str, pos) ==
    IF pos <= Len(str) /\ str[pos] \in PyparsingWhite
    THEN SkipWhitespace(str, pos + 1)
    ELSE pos

\* Word: the first position at or after pos whose character is not in body.
RECURSIVE WordEnd(_, _, _)
WordEnd(str, pos, body) ==
    IF pos <= Len(str) /\ str[pos] \in body
    THEN WordEnd(str, pos + 1, body)
    ELSE pos

CharAt(str, pos) == IF pos >= 1 /\ pos <= Len(str) THEN str[pos] ELSE ""

\* Literal(lit), whitespace skipped first: the position after it, or 0.
LiteralEnd(str, pos, lit) ==
    LET p == SkipWhitespace(str, pos)
    IN  IF p + Len(lit) - 1 <= Len(str) /\ SubSeq(str, p, p + Len(lit) - 1) = lit
        THEN p + Len(lit)
        ELSE 0

\* A parser's outcome: success, the position after the match, the tokens
\* matched, and the names the parse actions have recorded so far (kept
\* also when the match fails: a parse action is not undone by backtracking).
Matched(pos, toks, vu, fu) ==
    [ok |-> TRUE, pos |-> pos, toks |-> toks, vu |-> vu, fu |-> fu]

Failed(pos, vu, fu) ==
    [ok |-> FALSE, pos |-> pos, toks |-> <<>>, vu |-> vu, fu |-> fu]

(***************************************************************************)
(* The grammar of ParseAugmenter.parse_algebra                             *)
(***************************************************************************)
plus_minus == {"+", "-"}

\* inner_number = Combine(number_part + Optional("." + Optional(number_part))
\*                        | "." + number_part)
\* Combine skips whitespace before the number and allows none inside it.
\* The position after the mantissa, or 0.
InnerNumberEnd(str, pos) ==
    LET q == SkipWhitespace(str, pos)
    IN  IF CharAt(str, q) \in nums
        THEN LET d1 == WordEnd(str, q, nums)
             IN  IF CharAt(str, d1) = "." THEN WordEnd(str, d1 + 1, nums) ELSE d1
        ELSE IF CharAt(str, q) = "." /\ CharAt(str, q + 1) \in nums
        THEN WordEnd(str, q + 1, nums)
        ELSE 0

\* Optional(CaselessLiteral("E") + Optional(plus_minus) + number_part):
\* the tokens and the position after them; no tokens and pos when absent.
ExponentPart(str, pos) ==
    LET pe == SkipWhitespace(str, pos)
        ps == SkipWhitespace(str, pe + 1)
        signed == CharAt(str, ps) \in plus_minus
        pd == SkipWhitespace(str, IF signed THEN ps + 1 ELSE pe + 1)
        de == WordEnd(str, pd, nums)
    IN  IF CharAt(str, pe) \in {"e", "E"} /\ CharAt(str, pd) \in nums
        THEN [pos |-> de,
              toks |-> <<Tok(<<"E">>)>>
                       \o (IF signed THEN <<Tok(<<str[ps]>>)>> ELSE <<>>)
                       \o <<Tok(SubSeq(str, pd, de - 1))>>]
        ELSE [pos |-> pos, toks |-> <<>>]

\* number = Group(Optional(plus_minus) + inner_number + Optional(E ...)
\*                + Optional(number_suffix))("number")
ParseNumber(str, pos) ==
    LET p0 == SkipWhitespace(str, pos)
        signed == CharAt(str, p0) \in plus_minus
        p1 == IF signed THEN p0 + 1 ELSE pos
        q == SkipWhitespace(str, p1)
        mend == InnerNumberEnd(str, p1)
        ex == ExponentPart(str, mend)
        pu == SkipWhitespace(str, ex.pos)
        suffixed == CharAt(str, pu) \in SuffixChars
    IN  IF mend = 0 THEN [ok |-> FALSE, pos |-> pos, toks |-> <<>>]
        ELSE [ok |-> TRUE,
              pos |-> IF suffixed THEN pu + 1 ELSE ex.pos,
              toks |-> <<Grp("number",
                             (IF signed THEN <<Tok(<<str[p0]>>)>> ELSE <<>>)
                             \o <<Tok(SubSeq(str, q, mend - 1))>>
                             \o ex.toks
                             \o (IF suffixed THEN <<Tok(<<str[pu]>>)>> ELSE <<>>))>>]

\* inner_varname = Word(alphas + "_", alphanums + "_"): the position after
\* the name that starts at the first non-blank character, or 0.
InnerVarnameEnd(str, pos) ==
    LET p == SkipWhitespace(str, pos)
    IN  IF CharAt(str, p) \in alphas \cup {"_"}
        THEN WordEnd(str, p, alphanums \cup {"_"})
        ELSE 0

InnerVarname(str, pos) ==
    SubSeq(str, SkipWhitespace(str, pos), InnerVarnameEnd(str, pos) - 1)

\* varname = Group(inner_varname)("variable"), with variable_parse_action
ParseVarname(str, pos, vu, fu) ==
    IF InnerVarnameEnd(str, pos) = 0 THEN Failed(pos, vu, fu)
    ELSE Matched(InnerVarnameEnd(str, pos),
                 <<Grp("variable", <<Tok(InnerVarname(str, pos))>>)>>,
                 vu \cup {InnerVarname(str, pos)}, fu)

\* A successful match r, its tokens made one group.
AsGroup(name, r) == Matched(r.pos, <<Grp(name, r.toks)>>, r.vu, r.fu)

RECURSIVE ParseFunction(_, _, _, _)
RECURSIVE ParseParens(_, _, _, _)
RECURSIVE ParseAtom(_, _, _, _)
RECURSIVE PowRest(_, _, _, _, _)
RECURSIVE ParsePower(_, _, _, _)
RECURSIVE ParRest(_, _, _, _, _)
RECURSIVE ParseParallel(_, _, _, _)
RECURSIVE ProdRest(_, _, _, _, _)
RECURSIVE ParseProduct(_, _, _, _)
RECURSIVE SumRest(_, _, _, _, _)
RECURSIVE ParseSum(_, _, _, _)

\* inner_varname + Suppress("("): the position after the parenthesis, or 0
FunctionOpen(str, pos) ==
    IF InnerVarnameEnd(str, pos) = 0 THEN 0
    ELSE LiteralEnd(str, InnerVarnameEnd(str, pos), <<"(">>)

FunctionClose_both(str, pos, r) ==
    IF ~r.ok \/ LiteralEnd(str, r.pos, <<")">>) = 0 THEN Failed(pos, r.vu, r.fu)
    ELSE Matched(LiteralEnd(str, r.pos, <<")">>),
                 <<Grp("function", <<Tok(InnerVarname(str, pos))>> \o r.toks)>>,
                 r.vu \cup {InnerVarname(str, pos)}, r.fu \cup {InnerVarname(str, pos)})

\* ... + Suppress(")") after the argument r, then function_parse_action
FunctionClose(str, pos, r) ==
    IF ~r.ok \/ LiteralEnd(str, r.pos, <<")">>) = 0 THEN Failed(pos, r.vu, r.fu)
    ELSE Matched(LiteralEnd(str, r.pos, <<")">>),
                 <<Grp("function", <<Tok(InnerVarname(str, pos))>> \o r.toks)>>,
                 r.vu, r.fu \cup {InnerVarname(str, pos)})

\* function = Group(inner_varname + Suppress("(") + expr + Suppress(")"))
\*            ("function"), with function_parse_action
ParseFunction(str, pos, vu, fu) ==
    IF FunctionOpen(str, pos) = 0 THEN Failed(pos, vu, fu)
    ELSE FunctionClose(str, pos, ParseSum(str, FunctionOpen(str, pos), vu, fu))

\* ... + ")" after the inner expression r
ParensClose(str, pos, r) ==
    IF ~r.ok \/ LiteralEnd(str, r.pos, <<")">>) = 0 THEN Failed(pos, r.vu, r.fu)
    ELSE Matched(LiteralEnd(str, r.pos, <<")">>),
                 <<Tok(<<"(">>)>> \o r.toks \o <<Tok(<<")">>)>>, r.vu, r.fu)

\* "(" + expr + ")"
ParseParens(str, pos, vu, fu) ==
    IF LiteralEnd(str, pos, <<"(">>) = 0 THEN Failed(pos, vu, fu)
    ELSE ParensClose(str, pos, ParseSum(str, LiteralEnd(str, pos, <<"(">>), vu, fu))

\* The alternatives of atom, tried in order; each gets the names recorded
\* while the ones before it were tried.
AtomParens(str, pos, pa) ==
    IF pa.ok THEN AsGroup("atom", pa) ELSE Failed(pos, pa.vu, pa.fu)

AtomVarname(str, pos, vn) ==
    IF vn.ok THEN AsGroup("atom", vn)
    ELSE AtomParens(str, pos, ParseParens(str, pos, vn.vu, vn.fu))

AtomFunction(str, pos, fn) ==
    IF fn.ok THEN AsGroup("atom", fn)
    ELSE AtomVarname(str, pos, ParseVarname(str, pos, fn.vu, fn.fu))

AtomNumber(str, pos, vu, fu, nu) ==
    IF nu.ok THEN Matched(nu.pos, <<Grp("atom", nu.toks)>>, vu, fu)
    ELSE AtomFunction(str, pos, ParseFunction(str, pos, vu, fu))

\* atom = Group(number | function | varname | "(" + expr + ")")("atom")
ParseAtom(str, pos, vu, fu) == AtomNumber(str, pos, vu, fu, ParseNumber(str, pos))

\* One more "^" + atom, a being the atom's match
PowMore(str, pos, acc, a) ==
    IF a.ok THEN PowRest(str, a.pos, a.vu, a.fu, acc \o <<Tok(<<"^">>)>> \o a.toks)
    ELSE Matched(pos, acc, a.vu, a.fu)

\* ZeroOrMore("^" + atom), after the tokens acc
PowRest(str, pos, vu, fu, acc) ==
    IF LiteralEnd(str, pos, <<"^">>) = 0 THEN Matched(pos, acc, vu, fu)
    ELSE PowMore(str, pos, acc, ParseAtom(str, LiteralEnd(str, pos, <<"^">>), vu, fu))

PowerAfter(str, pos, a) ==
    IF ~a.ok THEN Failed(pos, a.vu, a.fu)
    ELSE AsGroup("power", PowRest(str, a.pos, a.vu, a.fu, a.toks))

\* pow_term = Group(atom + ZeroOrMore("^" + atom))("power")
ParsePower(str, pos, vu, fu) == PowerAfter(str, pos, ParseAtom(str, pos, vu, fu))

\* One more '||' + pow_term, a being the pow_term's match
ParMore(str, pos, acc, a) ==
    IF a.ok THEN ParRest(str, a.pos, a.vu, a.fu, acc \o <<Tok(<<"|", "|">>)>> \o a.toks)
    ELSE Matched(pos, acc, a.vu, a.fu)

\* ZeroOrMore('||' + pow_term), after the tokens acc
ParRest(str, pos, vu, fu, acc) ==
    IF LiteralEnd(str, pos, <<"|", "|">>) = 0 THEN Matched(pos, acc, vu, fu)
    ELSE ParMore(str, pos, acc,
                 ParsePower(str, LiteralEnd(str, pos, <<"|", "|">>), vu, fu))

ParallelAfter(str, pos, a) ==
    IF ~a.ok THEN Failed(pos, a.vu, a.fu)
    ELSE AsGroup("parallel", ParRest(str, a.pos, a.vu, a.fu, a.toks))

\* par_term = Group(pow_term + ZeroOrMore('||' + pow_term))("parallel")
ParseParallel(str, pos, vu, fu) == ParallelAfter(str, pos, ParsePower(str, pos, vu, fu))

\* One more operator (at p) + par_term, a being the par_term's match
ProdMore(str, pos, p, acc, a) ==
    IF a.ok THEN ProdRest(str, a.pos, a.vu, a.fu, acc \o <<Tok(<<str[p]>>)>> \o a.toks)
    ELSE Matched(pos, acc, a.vu, a.fu)

\* ZeroOrMore((Literal('*') | Literal('/')) + par_term), after the tokens acc
ProdRest(str, pos, vu, fu, acc) ==
    IF CharAt(str, SkipWhitespace(str, pos)) \notin {"*", "/"}
    THEN Matched(pos, acc, vu, fu)
    ELSE ProdMore(str, pos, SkipWhitespace(str, pos), acc,
                  ParseParallel(str, SkipWhitespace(str, pos) + 1, vu, fu))

ProductAfter(str, pos, a) ==
    IF ~a.ok THEN Failed(pos, a.vu, a.fu)
    ELSE AsGroup("product", ProdRest(str, a.pos, a.vu, a.fu, a.toks))

\* prod_term as it would be with a pow_term for its first operand.
ParseProduct_over_power(str, pos, vu, fu) ==
    ProductAfter(str, pos, ParsePower(str, pos, vu, fu))

\* prod_term = Group(par_term + ZeroOrMore(...))("product")
ParseProduct(str, pos, vu, fu) == ProductAfter(str, pos, ParseParallel(str, pos, vu, fu))

\* One more sign (at p) + prod_term, a being the prod_term's match
SumMore(str, pos, p, acc, a) ==
    IF a.ok THEN SumRest(str, a.pos, a.vu, a.fu, acc \o <<Tok(<<str[p]>>)>> \o a.toks)
    ELSE Matched(pos, acc, a.vu, a.fu)

\* ZeroOrMore(plus_minus + prod_term), after the tokens acc
SumRest(str, pos, vu, fu, acc) ==
    IF CharAt(str, SkipWhitespace(str, pos)) \notin plus_minus
    THEN Matched(pos, acc, vu, fu)
    ELSE SumMore(str, pos, SkipWhitespace(str, pos), acc,
                 ParseProduct(str, SkipWhitespace(str, pos) + 1, vu, fu))

\* The rest of sum_term after its first prod_term a; lead is the leading sign
SumAfter(str, pos, lead, a) ==
    IF ~a.ok THEN Failed(pos, a.vu, a.fu)
    ELSE AsGroup("sum", SumRest(str, a.pos, a.vu, a.fu, lead \o a.toks))

ParseSum_unsigned(str, pos, vu, fu) ==
    SumAfter(str, pos, <<>>, ParseProduct(str, pos, vu, fu))

\* sum_term = Group(Optional(plus_minus) + prod_term
\*                  + ZeroOrMore(plus_minus + prod_term))("sum"); expr << sum_term
ParseSum(str, pos, vu, fu) ==
    IF CharAt(str, SkipWhitespace(str, pos)) \in plus_minus
    THEN SumAfter(str, pos, <<Tok(<<str[SkipWhitespace(str, pos)]>>)>>,
                  ParseProduct(str, SkipWhitespace(str, pos) + 1, vu, fu))
    ELSE SumAfter(str, pos, <<>>, ParseProduct(str, pos, vu, fu))

\* The end of parsing as it would be without stringEnd: the matched prefix is
\* taken and the rest of the input ignored.
StringEnd_absent(str, r) ==
    IF r.ok
    THEN [ok |-> TRUE, tree |-> r.toks[1], vu |-> r.vu, fu |-> r.fu]
    ELSE [ok |-> FALSE, tree |-> NoTree, vu |-> r.vu, fu |-> r.fu]

\* expr + stringEnd on the match r of expr: ok is FALSE when parseString
\* raises ParseException.
StringEnd(str, r) ==
    IF r.ok /\ SkipWhitespace(str, r.pos) > Len(str)
    THEN [ok |-> TRUE, tree |-> r.toks[1], vu |-> r.vu, fu |-> r.fu]
    ELSE [ok |-> FALSE, tree |-> NoTree, vu |-> r.vu, fu |-> r.fu]

\* self.tree = (expr + stringEnd).parseString(self.math_expr)[0]
parse_algebra(str) == StringEnd(str, ParseSum(str, 1, {}, {}))

(***************************************************************************)
(* Values: what a tree node reduces to in evaluator()                      *)
(*   "num"   the float (n/d)*10^e, canonical: d > 0 prime to 10, n no      *)
(*           multiple of 10, n/d in lowest terms                           *)
(*   "double" a float held bit for bit, see Binary64                       *)
(*   "nan"   float('nan')                                                  *)
(*   "other" a float the model does not compute (an irrational or complex  *)
(*           power, a magnitude past ModelLimit, a function's result)      *)
(*   "str"   a terminal string of the tree, s                              *)
(*   "exc"   a raised exception of type x with message m                   *)
(***************************************************************************)
\* The largest magnitude the model multiplies out.
ModelLimit == 100000000

Val(k, n, d, e, x, m, s) ==
    [k |-> k, n |-> n, d |-> d, e |-> e, x |-> x, m |-> m, s |-> s]

NaN == Val("nan", 0, 1, 0, "", "", <<>>)

Other == Val("other", 0, 1, 0, "", "", <<>>)

StrVal(s) == Val("str", 0, 1, 0, "", "", s)

Exc(x, m) == Val("exc", 0, 1, 0, x, m, <<>>)

\* The result of calling the function f on a number.
Applied(f, v) == Val("applied", v.n, v.d, v.e, f, "", <<>>)

Abs(i) == IF i < 0 THEN -i ELSE i

RECURSIVE GCD(_, _)
GCD(a, b) == IF b = 0 THEN a ELSE GCD(b, a % b)

\* Whether a*b stays within ModelLimit.
Fits(a, b) == a = 0 \/ b = 0 \/ Abs(a) <= ModelLimit \div Abs(b)

\* (n/d)*10^e with d > 0, in canonical form.
RECURSIVE Canon(_, _, _)
Canon(n, d, e) ==
    IF n = 0 THEN Val("num", 0, 1, 0, "", "", <<>>)
    ELSE IF GCD(Abs(n), d) > 1 THEN Canon(n \div GCD(Abs(n), d), d \div GCD(Abs(n), d), e)
    ELSE IF n % 10 = 0 THEN Canon(n \div 10, d, e + 1)
    ELSE IF d % 10 = 0 THEN Canon(n, d \div 10, e - 1)
    ELSE IF d % 2 = 0 THEN (IF Fits(n, 5) THEN Canon(n * 5, d \div 2, e - 1) ELSE Other)
    ELSE IF d % 5 = 0 THEN (IF Fits(n, 2) THEN Canon(n * 2, d \div 5, e - 1) ELSE Other)
    ELSE Val("num", n, d, e, "", "", <<>>)

Num(n, d, e) == IF d < 0 THEN Canon(-n, -d, e) ELSE Canon(n, d, e)

IsZero(v) == v.k = "num" /\ v.n = 0

IsOne(v) == v.k = "num" /\ v.n = 1 /\ v.d = 1 /\ v.e = 0

\* isinstance(v, numbers.Number)
IsNumber(v) == v.k \in {"num", "double", "nan", "other", "applied", "const"}

RECURSIVE Pow10(_)
Pow10(k) == IF k = 0 THEN 1 ELSE 10 * Pow10(k - 1)

\* operator.mul on two floats
Mul(a, b) ==
    IF a.k = "nan" \/ b.k = "nan" THEN NaN
    ELSE IF a.k = "double" /\ IsOne(b) THEN a
    ELSE IF b.k = "double" /\ IsOne(a) THEN b
    ELSE IF a.k # "num" \/ b.k # "num" THEN Other
    ELSE IF ~Fits(a.n, b.n) \/ ~Fits(a.d, b.d) THEN Other
    ELSE Num(a.n * b.n, a.d * b.d, a.e + b.e)

\* operator.truediv on two floats
TrueDiv(a, b) ==
    IF IsZero(b) THEN Exc("ZeroDivisionError", "float division by zero")
    ELSE IF a.k = "nan" \/ b.k = "nan" THEN NaN
    ELSE IF a.k = "double" /\ IsOne(b) THEN a
    ELSE IF a.k # "num" \/ b.k # "num" THEN Other
    ELSE IF ~Fits(a.n, b.d) \/ ~Fits(a.d, b.n) THEN Other
    ELSE Num(a.n * b.d, a.d * b.n, a.e - b.e)

\* operator.add on two floats
Add(a, b) ==
    IF a.k = "nan" \/ b.k = "nan" THEN NaN
    ELSE IF a.k = "double" /\ IsZero(b) THEN a
    ELSE IF b.k = "double" /\ IsZero(a) THEN b
    ELSE IF a.k # "num" \/ b.k # "num" THEN Other
    ELSE IF IsZero(a) THEN b
    ELSE IF IsZero(b) THEN a
    ELSE LET e == IF a.e < b.e THEN a.e ELSE b.e
             sa == a.e - e
             sb == b.e - e
         IN  IF sa > 8 \/ sb > 8 THEN Other
             ELSE IF ~Fits(a.n, Pow10(sa)) \/ ~Fits(b.n, Pow10(sb)) THEN Other
             ELSE IF ~Fits(a.n * Pow10(sa), b.d) \/ ~Fits(b.n * Pow10(sb), a.d)
                     \/ ~Fits(a.d, b.d) THEN Other
             ELSE Num(a.n * Pow10(sa) * b.d + b.n * Pow10(sb) * a.d, a.d * b.d, e)

Neg(a) ==
    IF a.k = "num" THEN Val("num", -a.n, a.d, a.e, "", "", <<>>)
    ELSE IF a.k = "double" THEN [a EXCEPT !.n = -a.n]
    ELSE a

\* operator.sub on two floats
Sub(a, b) == Add(a, Neg(b))

\* i^k for k >= 0, or 0 when it passes ModelLimit (i # 0)
RECURSIVE IntPow(_, _)
IntPow(i, k) ==
    IF k = 0 THEN 1
    ELSE LET r == IntPow(i, k - 1)
         IN  IF r = 0 \/ ~Fits(r, i) THEN 0 ELSE r * i

\* Whether the float is a whole number the model can use as an exponent.
IsSmallInt(v) == v.k = "num" /\ v.d = 1 /\ v.e >= 0 /\ v.e <= 1 /\ Abs(v.n) < 100

IntOf(v) == v.n * Pow10(v.e)

\* b ** a on two floats
Power(b, a) ==
    IF IsZero(a) THEN Num(1, 1, 0)
    ELSE IF b.k = "num" /\ b.n = 1 /\ b.d = 1 /\ b.e = 0 THEN Num(1, 1, 0)
    ELSE IF a.k = "nan" \/ b.k = "nan" THEN NaN
    ELSE IF a.k # "num" \/ b.k # "num" THEN Other
    ELSE IF IsZero(b)
    THEN IF a.n < 0
         THEN Exc("ZeroDivisionError", "0.0 cannot be raised to a negative power")
         ELSE Num(0, 1, 0)
    ELSE IF ~IsSmallInt(a) THEN Other
    ELSE LET k == Abs(IntOf(a))
             pn == IntPow(b.n, k)
             pd == IntPow(b.d, k)
         IN  IF pn = 0 \/ pd = 0 THEN Other
             ELSE IF a.n > 0 THEN Num(pn, pd, b.e * k)
             ELSE Num(pd, pn, -(b.e * k))

\* SUFFIXES
SUFFIXES ==
    [c \in SuffixChars |->
        CASE c = "%" -> Num(1, 1, -2)
          [] c = "k" -> Num(1, 1, 3)
          [] c = "M" -> Num(1, 1, 6)
          [] c = "G" -> Num(1, 1, 9)
          [] c = "T" -> Num(1, 1, 12)
          [] c = "c" -> Num(1, 1, -2)
          [] c = "m" -> Num(1, 1, -3)
          [] c = "u" -> Num(1, 1, -6)
          [] c = "n" -> Num(1, 1, -9)
          [] c = "p" -> Num(1, 1, -12)]

DigitSeq == <<"0", "1", "2", "3", "4", "5", "6", "7", "8", "9">>

DigitVal(c) == (CHOOSE i \in DOMAIN DigitSeq : DigitSeq[i] = c) - 1

\* int() of a string of digits ("" gives 0); -1 when it passes ModelLimit
RECURSIVE DigitsVal(_)
DigitsVal(ds) ==
    IF ds = <<>> THEN 0
    ELSE LET r == DigitsVal(SubSeq(ds, 1, Len(ds) - 1))
         IN  IF r < 0 \/ ~Fits(r, 10) THEN -1
             ELSE r * 10 + DigitVal(ds[Len(ds)])

IndexOf(seq, S) ==
    IF \E i \in DOMAIN seq : seq[i] \in S
    THEN CHOOSE i \in DOMAIN seq : seq[i] \in S /\ \A j \in 1..(i - 1) : seq[j] \notin S
    ELSE 0

\* float(text) for text of the form [sign] digits [. digits] [E [sign] digits]
\* (one of the two digit runs of the mantissa may be empty); ValueError otherwise
float(text) ==
    LET signed == text # <<>> /\ text[1] \in plus_minus
        body == IF signed THEN Tail(text) ELSE text
        ei == IndexOf(body, {"e", "E"})
        mant == IF ei = 0 THEN body ELSE SubSeq(body, 1, ei - 1)
        expo == IF ei = 0 THEN <<>> ELSE SubSeq(body, ei + 1, Len(body))
        esigned == expo # <<>> /\ expo[1] \in plus_minus
        edigits == IF esigned THEN Tail(expo) ELSE expo
        di == IndexOf(mant, {"."})
        ipart == IF di = 0 THEN mant ELSE SubSeq(mant, 1, di - 1)
        fpart == IF di = 0 THEN <<>> ELSE SubSeq(mant, di + 1, Len(mant))
        wellformed == /\ Range(ipart) \cup Range(fpart) \cup Range(edigits) \subseteq nums
                      /\ ipart \o fpart # <<>>
                      /\ ei # 0 => edigits # <<>>
        m == DigitsVal(ipart \o fpart)
        x == DigitsVal(edigits)
    IN  IF ~wellformed
        THEN Exc("ValueError", "could not convert string to float")
        ELSE IF m < 0 \/ x < 0 THEN Other
        ELSE Num(IF signed /\ text[1] = "-" THEN -m ELSE m, 1,
                 (IF esigned /\ expo[1] = "-" THEN -x ELSE x) - Len(fpart))

\* super_float as it would be if it dropped the suffix without scaling.
super_float_unscaled(text) ==
    IF text[Len(text)] \in SuffixChars
    THEN float(SubSeq(text, 1, Len(text) - 1))
    ELSE float(text)

\* Like float, but with SI extensions. 1k goes to 1000.
super_float(text) ==
    IF text[Len(text)] \in SuffixChars
    THEN LET f == float(SubSeq(text, 1, Len(text) - 1))
         IN  IF f.k = "exc" THEN f ELSE Mul(f, SUFFIXES[text[Len(text)]])
    ELSE float(text)

(***************************************************************************)
(* The default tables and the merged environment                           *)
(* A dict is the sequence of its <<key, value>> items in insertion order.  *)
(***************************************************************************)
\* A named constant of numpy or scipy.constants.
Const(name) == Val("const", 0, 1, 0, name, "", <<>>)

DEFAULT_FUNCTIONS ==
    <<<<<<"s", "i", "n">>, "numpy.sin">>,
      <<<<"c", "o", "s">>, "numpy.cos">>,
      <<<<"t", "a", "n">>, "numpy.tan">>,
      <<<<"s", "e", "c">>, "functions.sec">>,
      <<<<"c", "s", "c">>, "functions.csc">>,
      <<<<"c", "o", "t">>, "functions.cot">>,
      <<<<"s", "q", "r", "t">>, "numpy.sqrt">>,
      <<<<"l", "o", "g", "1", "0">>, "numpy.log10">>,
      <<<<"l", "o", "g", "2">>, "numpy.log2">>,
      <<<<"l", "n">>, "numpy.log">>,
      <<<<"e", "x", "p">>, "numpy.exp">>,
      <<<<"a", "r", "c", "c", "o", "s">>, "numpy.arccos">>,
      <<<<"a", "r", "c", "s", "i", "n">>, "numpy.arcsin">>,
      <<<<"a", "r", "c", "t", "a", "n">>, "numpy.arctan">>,
      <<<<"a", "r", "c", "s", "e", "c">>, "functions.arcsec">>,
      <<<<"a", "r", "c", "c", "s", "c">>, "functions.arccsc">>,
      <<<<"a", "r", "c", "c", "o", "t">>, "functions.arccot">>,
      <<<<"a", "b", "s">>, "numpy.abs">>,
      <<<<"f", "a", "c", "t">>, "math.factorial">>,
      <<<<"f", "a", "c", "t", "o", "r", "i", "a", "l">>, "math.factorial">>,
      <<<<"s", "i", "n", "h">>, "numpy.sinh">>,
      <<<<"c", "o", "s", "h">>, "numpy.cosh">>,
      <<<<"t", "a", "n", "h">>, "numpy.tanh">>,
      <<<<"s", "e", "c", "h">>, "functions.sech">>,
      <<<<"c", "s", "c", "h">>, "functions.csch">>,
      <<<<"c", "o", "t", "h">>, "functions.coth">>,
      <<<<"a", "r", "c", "s", "i", "n", "h">>, "numpy.arcsinh">>,
      <<<<"a", "r", "c", "c", "o", "s", "h">>, "numpy.arccosh">>,
      <<<<"a", "r", "c", "t", "a", "n", "h">>, "numpy.arctanh">>,
      <<<<"a", "r", "c", "s", "e", "c", "h">>, "functions.arcsech">>,
      <<<<"a", "r", "c", "c", "s", "c", "h">>, "functions.arccsch">>,
      <<<<"a", "r", "c", "c", "o", "t", "h">>, "functions.arccoth">>>>

DEFAULT_VARIABLES ==
    << <<<<"i">>, Const("numpy.complex(0, 1)")>>,
       <<<<"j">>, Const("numpy.complex(0, 1)")>>,
       <<<<"e">>, Const("numpy.e")>>,
       <<<<"p", "i">>, Const("numpy.pi")>>,
       <<<<"k">>, Const("scipy.constants.k")>>,
       <<<<"c">>, Const("scipy.constants.c")>>,
       <<<<"T">>, Num(29815, 1, -2)>>,
       <<<<"q">>, Const("scipy.constants.e")>> >>

Keys(dict) == {dict[i][1] : i \in DOMAIN dict}

\* dict[key] = value: an existing key keeps its place, a new one goes last
DictSet(dict, key, value) ==
    IF key \in Keys(dict)
    THEN [i \in DOMAIN dict |-> IF dict[i][1] = key THEN <<key, value>> ELSE dict[i]]
    ELSE Append(dict, <<key, value>>)

\* dict.update(other)
RECURSIVE DictUpdate(_, _)
DictUpdate(dict, other) ==
    IF other = <<>> THEN dict
    ELSE DictUpdate(DictSet(dict, other[1][1], other[1][2]), Tail(other))

DictGet(dict, key) == dict[CHOOSE i \in DOMAIN dict : dict[i][1] = key][2]

\* {k.lower(): v for k, v in input_dict.items()}
RECURSIVE LowerItems(_, _)
LowerItems(items, acc) ==
    IF items = <<>> THEN acc
    ELSE LowerItems(Tail(items), DictSet(acc, Lower(items[1][1]), items[1][2]))

lower_dict(input_dict) == LowerItems(input_dict, <<>>)

\* What add_defaults hands back: a dict (its items) or a set (its keys).
DictEnv(items) == [kind |-> "dict", keys |-> Keys(items), items |-> items]

SetEnv(keys) == [kind |-> "set", keys |-> keys, items |-> <<>>]

NoEnv == [kind |-> "none", keys |-> {}, items |-> <<>>]

\* The module tables as a call leaves them.
Tables(dv, df) == [variables |-> dv, functions |-> df]

\* The first definition of add_defaults (the dictionaries): the merged
\* dictionaries, built on copies dict(DEFAULT_...) of the module tables, and
\* the module tables as they are left.
add_defaults_dict(vars_, funs_, cs) ==
    LET all_v == DictUpdate(default_variables, vars_)
        all_f == DictUpdate(default_functions, funs_)
    IN  IF ~cs
        THEN <<DictEnv(lower_dict(all_v)), DictEnv(lower_dict(all_f)),
               Tables(default_variables, default_functions)>>
        ELSE <<DictEnv(all_v), DictEnv(all_f), Tables(default_variables, default_functions)>>

\* The second definition of add_defaults (the sets of names), built on
\* copies set(DEFAULT_...) of the module tables' keys.
add_defaults_set(var, fun, cs) ==
    LET var_items == Keys(default_variables) \cup Keys(var)
        fun_items == Keys(default_functions) \cup Keys(fun)
    IN  IF ~cs
        THEN <<SetEnv({Lower(k) : k \in var_items}), SetEnv({Lower(k) : k \in fun_items}),
               Tables(default_variables, default_functions)>>
        ELSE <<SetEnv(var_items), SetEnv(fun_items),
               Tables(default_variables, default_functions)>>

\* add_defaults as it would be if it updated the module tables themselves
\* instead of copies of them.
add_defaults_aliased(var, fun, cs) ==
    LET var_items == Keys(default_variables) \cup Keys(var)
        fun_items == Keys(default_functions) \cup Keys(fun)
    IN  IF ~cs
        THEN <<SetEnv({Lower(k) : k \in var_items}), SetEnv({Lower(k) : k \in fun_items}),
               Tables(DictUpdate(default_variables, var), DictUpdate(default_functions, fun))>>
        ELSE <<SetEnv(var_items), SetEnv(fun_items),
               Tables(DictUpdate(default_variables, var), DictUpdate(default_functions, fun))>>

\* The module-level name add_defaults when evaluator() and latex_preview()
\* run: the module binds it twice, and the second binding stands.
add_defaults(var, fun, cs) == add_defaults_set(var, fun, cs)

casify(cs, x) == IF cs THEN x ELSE Lower(x)

\* container[key]
Subscript(env, key) ==
    IF env.kind = "set" THEN Exc("TypeError", "'set' object is not subscriptable")
    ELSE IF key \in env.keys THEN DictGet(env.items, key)
    ELSE Exc("KeyError", Str(key))

\* ParseAugmenter.check_variables: the message of the UndefinedVariable it
\* raises, or "" when it raises nothing.
bad_vars(vu, fu, valid_variables, valid_functions, cs) ==
    {var \in vu : casify(cs, var) \notin valid_variables.keys}
    \cup {func \in fu : casify(cs, func) \notin valid_functions.keys}

\* check_variables as it would be if it stopped at the first undefined name.
check_variables_first(vu, fu, valid_variables, valid_functions, cs) ==
    IF bad_vars(vu, fu, valid_variables, valid_functions, cs) # {}
    THEN Exc("UndefinedVariable",
             Str(Sorted(bad_vars(vu, fu, valid_variables, valid_functions, cs))[1]))
    ELSE Val("none", 0, 1, 0, "", "", <<>>)

check_variables(vu, fu, valid_variables, valid_functions, cs) ==
    IF bad_vars(vu, fu, valid_variables, valid_functions, cs) # {}
    THEN Exc("UndefinedVariable",
             JoinSpace(Sorted(bad_vars(vu, fu, valid_variables, valid_functions, cs))))
    ELSE Val("none", 0, 1, 0, "", "", <<>>)

(***************************************************************************)
(* The evaluation actions                                                  *)
(***************************************************************************)
RECURSIVE Concat(_)
Concat(vals) == IF vals = <<>> THEN <<>> ELSE vals[1].s \o Concat(Tail(vals))

eval_number(parse_result) == super_float(Concat(parse_result))

Numbers(parse_result) ==
    SelectSeq(parse_result, LAMBDA v : IsNumber(v))

eval_atom(parse_result) == Numbers(parse_result)[1]

\* reduce(lambda a, b: b ** a, reversed(numbers)), from the index i down
RECURSIVE PowerFold(_, _, _)
PowerFold(ns, i, a) ==
    IF i = 0 \/ a.k = "exc" THEN a
    ELSE PowerFold(ns, i - 1, Power(ns[i], a))

\* reduce(lambda a, b: a ** b, numbers), from the index i up
RECURSIVE PowerFoldLeft(_, _, _)
PowerFoldLeft(ns, i, a) ==
    IF i > Len(ns) \/ a.k = "exc" THEN a
    ELSE PowerFoldLeft(ns, i + 1, Power(a, ns[i]))

\* eval_power as it would be if it folded from the left.
eval_power_left(parse_result) ==
    PowerFoldLeft(Numbers(parse_result), 2, Numbers(parse_result)[1])

eval_power(parse_result) ==
    LET ns == Numbers(parse_result)
    IN  PowerFold(ns, Len(ns) - 1, ns[Len(ns)])

(***************************************************************************)
(* The reciprocals of eval_parallel and their sum, in binary64.  A "num"   *)
(* n/d*10^e stands for the double nearest to it; 1. / e and sum() round    *)
(* to nearest, ties to even, after every operation, so the result depends  *)
(* on the order of the additions.  A double that is no such nearest double *)
(* is the value "double": sign n, 53-bit significand s = <<h, l>> (the     *)
(* integer h*Limb + l), binary exponent e.  Exponents stay far from the    *)
(* ends of the binary64 range in the expressions checked.                  *)
(***************************************************************************)
\* 2^27: a significand is held as two limbs, h*Limb + l
Limb == 134217728

Wide(h, l) == [h |-> h, l |-> l]

WideZero(w) == w.h = 0 /\ w.l = 0

WideGeq(a, b) == a.h > b.h \/ (a.h = b.h /\ a.l >= b.l)

WideAdd(a, b) == Wide(a.h + b.h + (a.l + b.l) \div Limb, (a.l + b.l) % Limb)

WideSub(a, b) ==
    IF a.l >= b.l THEN Wide(a.h - b.h, a.l - b.l)
    ELSE Wide(a.h - b.h - 1, a.l + Limb - b.l)

Twice(w) == Wide(2 * w.h + (2 * w.l) \div Limb, (2 * w.l) % Limb)

Halve(w) == Wide(w.h \div 2, w.l \div 2 + (w.h % 2) * (Limb \div 2))

\* w * 2^x, and whether a nonzero part below the last bit was dropped
Inexact(w, x, st) == [w |-> w, x |-> x, st |-> st]

\* The 56-bit form of a nonzero w * 2^x, 2^55 <= w < 2^56: shifted right a
\* bit at a time, left by a limb, by twelve bits or by one
RECURSIVE Normalize(_, _, _)
Normalize(w, x, st) ==
    IF w.h >= 4 * Limb THEN Normalize(Halve(w), x + 1, st \/ w.l % 2 = 1)
    ELSE IF w.h >= 2 * Limb THEN Inexact(w, x, st)
    ELSE IF w.h = 0 THEN Normalize(Wide(w.l, 0), x - 27, st)
    ELSE IF w.h < (2 * Limb) \div 4096
    THEN Normalize(Wide(w.h * 4096 + w.l \div (Limb \div 4096),
                        (w.l % (Limb \div 4096)) * 4096),
                   x - 12, st)
    ELSE Normalize(Twice(w), x - 1, st)

\* A binary64: sg * (w.h*Limb + w.l) * 2^x with 2^52 <= w < 2^53, or zero
Binary64(sg, w, x) == [sg |-> sg, w |-> w, x |-> x]

Zero64 == Binary64(0, Wide(0, 0), 0)

\* The 53-bit significand w, after its increment when up, back in range
Carried(sg, w, x, up) ==
    IF ~up THEN Binary64(sg, w, x)
    ELSE IF WideAdd(w, Wide(0, 1)).h >= Limb \div 2
    THEN Binary64(sg, Wide(Limb \div 4, 0), x + 1)
    ELSE Binary64(sg, WideAdd(w, Wide(0, 1)), x)

\* Round to nearest, ties to even: the three bits below the 53rd decide
RoundNormal(sg, nf) ==
    Carried(sg,
            Wide(nf.w.h \div 8, nf.w.l \div 8 + (nf.w.h % 8) * (Limb \div 8)),
            nf.x + 3,
            \/ nf.w.l % 8 > 4
            \/ nf.w.l % 8 = 4 /\ (nf.st \/ (nf.w.l \div 8) % 2 = 1))

Round64(sg, w, x, st) ==
    IF WideZero(w) THEN Zero64 ELSE RoundNormal(sg, Normalize(w, x, st))

\* float(i) for a whole number i
FromInt(i) ==
    IF i = 0 THEN Zero64
    ELSE Round64(IF i < 0 THEN -1 ELSE 1, Wide(Abs(i) \div Limb, Abs(i) % Limb), 0, FALSE)

\* The remainder r and the quotient bits q of a long division
Dividing(r, q) == [r |-> r, q |-> q]

\* The next bit of r / b (r < 2b), unless q holds its 57 bits
Bit(dv, b) ==
    IF dv.q.h >= 4 * Limb THEN dv
    ELSE IF WideGeq(dv.r, b)
    THEN Dividing(Twice(WideSub(dv.r, b)), WideAdd(Twice(dv.q), Wide(0, 1)))
    ELSE Dividing(Twice(dv.r), Twice(dv.q))

Bits8(dv, b) == Bit(Bit(Bit(Bit(Bit(Bit(Bit(Bit(dv, b), b), b), b), b), b), b), b)

\* The first 57 bits of r / b, and whether a remainder is left
RECURSIVE Quotient(_, _)
Quotient(dv, b) ==
    IF dv.q.h >= 4 * Limb THEN Inexact(dv.q, 0, ~WideZero(dv.r))
    ELSE Quotient(Bits8(dv, b), b)

Divided(sg, x, qf) == Round64(sg, qf.w, x, qf.st)

\* num / den on two binary64, den nonzero
Div64(num, den) ==
    IF num.sg = 0 THEN Zero64
    ELSE Divided(num.sg * den.sg,
                 num.x - den.x - (IF WideGeq(num.w, den.w) THEN 56 ELSE 57),
                 Quotient(Dividing(num.w, Wide(0, 0)), den.w))

\* w shifted right by k bits: by a limb, by nine bits or by one
RECURSIVE ShiftRight(_, _, _)
ShiftRight(w, k, st) ==
    IF k = 0 \/ WideZero(w) THEN Inexact(w, 0, st)
    ELSE IF k >= 27 THEN ShiftRight(Wide(0, w.h), k - 27, st \/ w.l # 0)
    ELSE IF k >= 9
    THEN ShiftRight(Wide(w.h \div 512, w.l \div 512 + (w.h % 512) * (Limb \div 512)),
                    k - 9, st \/ w.l % 512 # 0)
    ELSE ShiftRight(Halve(w), k - 1, st \/ w.l % 2 = 1)

Times8(w) == Twice(Twice(Twice(w)))

\* big + small, the smaller one aligned as sf
Aligned(big, small, sf) ==
    IF big.sg = small.sg
    THEN Round64(big.sg, WideAdd(Times8(big.w), sf.w), big.x - 3, sf.st)
    ELSE Round64(big.sg,
                 IF sf.st THEN WideSub(WideSub(Times8(big.w), sf.w), Wide(0, 1))
                 ELSE WideSub(Times8(big.w), sf.w),
                 big.x - 3, sf.st)

Ordered(big, small) ==
    Aligned(big, small, ShiftRight(Times8(small.w), big.x - small.x, FALSE))

\* total + term on two binary64
Add64(total, term) ==
    IF total.sg = 0 THEN term
    ELSE IF term.sg = 0 THEN total
    ELSE IF total.x > term.x \/ (total.x = term.x /\ WideGeq(total.w, term.w))
    THEN Ordered(total, term)
    ELSE Ordered(term, total)

\* Whether the model holds the binary64 of the float v
Tracked(v) ==
    \/ v.k = "double"
    \/ /\ v.k = "num"
       /\ v.e >= -8 /\ v.e <= 8
       /\ Fits(v.n, Pow10(IF v.e > 0 THEN v.e ELSE 0))
       /\ Fits(v.d, Pow10(IF v.e < 0 THEN -v.e ELSE 0))

\* The binary64 of a tracked float
ToBinary64(v) ==
    IF v.k = "double" THEN Binary64(v.n, Wide(v.s[1], v.s[2]), v.e)
    ELSE IF v.d = 1 /\ v.e >= 0 THEN FromInt(v.n * Pow10(v.e))
    ELSE Div64(FromInt(v.n * Pow10(IF v.e > 0 THEN v.e ELSE 0)),
               FromInt(v.d * Pow10(IF v.e < 0 THEN -v.e ELSE 0)))

\* The float of the binary64 b, where q is the unrounded result
FromBinary64(b, q) ==
    IF b.sg = 0 THEN Num(0, 1, 0)
    ELSE IF q.k = "num" /\ Tracked(q) /\ ToBinary64(q) = b THEN q
    ELSE Val("double", b.sg, 1, b.x, "", "", <<b.w.h, b.w.l>>)

\* sum(reciprocals) over the first i of the tracked nonzero numbers ns
RECURSIVE Sum64(_, _)
Sum64(ns, i) ==
    IF i = 0 THEN Zero64
    ELSE Add64(Sum64(ns, i - 1), Div64(FromInt(1), ToBinary64(ns[i])))

\* 1. / total, where q is the unrounded result
Reciprocal64(total, q) ==
    IF total.sg = 0 THEN Exc("ZeroDivisionError", "float division by zero")
    ELSE FromBinary64(Div64(FromInt(1), total), q)

\* 1. / v; an exception raised on the way to v stands
Reciprocal(v) == IF v.k = "exc" THEN v ELSE TrueDiv(Num(1, 1, 0), v)

\* sum(reciprocals) over the numbers ns, added to acc, unrounded
RECURSIVE ReciprocalSum(_, _)
ReciprocalSum(ns, acc) ==
    IF ns = <<>> \/ acc.k = "exc" THEN acc
    ELSE IF Reciprocal(ns[1]).k = "exc" THEN Reciprocal(ns[1])
    ELSE ReciprocalSum(Tail(ns), Add(acc, Reciprocal(ns[1])))

\* 1. / sum(reciprocals) over the numbers ns
ReciprocalOfSum(ns) ==
    IF \E i \in DOMAIN ns : IsZero(ns[i]) \/ ~Tracked(ns[i])
    THEN Reciprocal(ReciprocalSum(ns, Num(0, 1, 0)))
    ELSE Reciprocal64(Sum64(ns, Len(ns)), Reciprocal(ReciprocalSum(ns, Num(0, 1, 0))))

\* eval_parallel as it would be without the test for a zero operand.
eval_parallel_unguarded(parse_result) ==
    IF Len(parse_result) = 1 THEN parse_result[1]
    ELSE ReciprocalOfSum(Numbers(parse_result))

\* eval_parallel as it would be if it inverted a single operand as well.
eval_parallel_single_inverted(parse_result) ==
    IF \E i \in DOMAIN parse_result : IsZero(parse_result[i]) THEN NaN
    ELSE ReciprocalOfSum(Numbers(parse_result))

eval_parallel(parse_result) ==
    IF Len(parse_result) = 1 THEN parse_result[1]
    ELSE IF \E i \in DOMAIN parse_result : IsZero(parse_result[i]) THEN NaN
    ELSE ReciprocalOfSum(Numbers(parse_result))

RECURSIVE SumFold(_, _, _)
SumFold(toks, total, current_op) ==
    IF toks = <<>> \/ total.k = "exc" THEN total
    ELSE IF toks[1].k = "str" /\ toks[1].s = <<"+">> THEN SumFold(Tail(toks), total, "add")
    ELSE IF toks[1].k = "str" /\ toks[1].s = <<"-">> THEN SumFold(Tail(toks), total, "sub")
    ELSE SumFold(Tail(toks),
                 IF current_op = "add" THEN Add(total, toks[1]) ELSE Sub(total, toks[1]),
                 current_op)

eval_sum(parse_result) == SumFold(parse_result, Num(0, 1, 0), "add")

RECURSIVE ProductFold(_, _, _)
ProductFold(toks, prod, current_op) ==
    IF toks = <<>> \/ prod.k = "exc" THEN prod
    ELSE IF toks[1].k = "str" /\ toks[1].s = <<"*">> THEN ProductFold(Tail(toks), prod, "mul")
    ELSE IF toks[1].k = "str" /\ toks[1].s = <<"/">>
    THEN ProductFold(Tail(toks), prod, "truediv")
    ELSE ProductFold(Tail(toks),
                     IF current_op = "mul" THEN Mul(prod, toks[1])
                     ELSE TrueDiv(prod, toks[1]),
                     current_op)

\* x1 op1 (x2 op2 (...)), the tokens taken from the right
RECURSIVE ProductFoldRight(_)
ProductFoldRight(toks) ==
    IF Len(toks) = 1 THEN toks[1]
    ELSE IF ProductFoldRight(SubSeq(toks, 3, Len(toks))).k = "exc"
    THEN ProductFoldRight(SubSeq(toks, 3, Len(toks)))
    ELSE IF toks[2].s = <<"*">>
    THEN Mul(toks[1], ProductFoldRight(SubSeq(toks, 3, Len(toks))))
    ELSE TrueDiv(toks[1], ProductFoldRight(SubSeq(toks, 3, Len(toks))))

\* eval_product as it would be if it folded from the right.
eval_product_right(parse_result) == ProductFoldRight(parse_result)

eval_product(parse_result) == ProductFold(parse_result, Num(1, 1, 0), "mul")

\* 'variable': lambda x: all_variables[casify(x[0])]
eval_variable(x, all_v, cs) == Subscript(all_v, casify(cs, x[1].s))

\* 'function': lambda x: all_functions[casify(x[0])](x[1])
eval_function(x, all_f, cs) ==
    LET f == Subscript(all_f, casify(cs, x[1].s))
    IN  IF all_f.kind = "set" \/ casify(cs, x[1].s) \notin all_f.keys THEN f
        ELSE Applied(f, x[2])

FirstExc(vals) ==
    IF \E i \in DOMAIN vals : vals[i].k = "exc"
    THEN vals[CHOOSE i \in DOMAIN vals :
                 vals[i].k = "exc" /\ \A j \in 1..(i - 1) : vals[j].k # "exc"]
    ELSE Val("none", 0, 1, 0, "", "", <<>>)

RECURSIVE handle_node(_, _, _, _)

\* action(handled_kids) for the node's name
HandleAction(name, handled_kids, all_v, all_f, cs) ==
    IF FirstExc(handled_kids).k = "exc" THEN FirstExc(handled_kids)
    ELSE CASE name = "number" -> eval_number(handled_kids)
           [] name = "variable" -> eval_variable(handled_kids, all_v, cs)
           [] name = "function" -> eval_function(handled_kids, all_f, cs)
           [] name = "atom" -> eval_atom(handled_kids)
           [] name = "power" -> eval_power(handled_kids)
           [] name = "parallel" -> eval_parallel(handled_kids)
           [] name = "product" -> eval_product(handled_kids)
           [] name = "sum" -> eval_sum(handled_kids)
           [] OTHER -> Exc("Exception", "Unknown branch name")

\* reduce_tree(evaluate_actions): handle_node, the children first and in order;
\* the first exception raised ends the reduction.
handle_node(node, all_v, all_f, cs) ==
    IF node.name = "tok" THEN StrVal(node.s)
    ELSE HandleAction(node.name,
                      [i \in DOMAIN node.kids |-> handle_node(node.kids[i], all_v, all_f, cs)],
                      all_v, all_f, cs)

\* The blank test as it would be without strip().
IsBlank_unstripped(expr) == expr = <<>>

\* math_expr.strip() == ""
IsBlank(expr) == \A i \in DOMAIN expr : expr[i] \in StripWhite

\* What a call leaves behind for the caller and in its ParseAugmenter.
Outcome(res, st, p, av, af) ==
    [result |-> res, steps |-> st, tree |-> p.tree, vu |-> p.vu, fu |-> p.fu,
     all_variables |-> av, all_functions |-> af,
     default_variables |-> default_variables, default_functions |-> default_functions]

\* The outcome o of a call that went through add_defaults, which left the
\* module tables as tables.
Merged(o, tables) ==
    [o EXCEPT !.default_variables = tables.variables,
              !.default_functions = tables.functions]

NotParsed == [ok |-> FALSE, tree |-> NoTree, vu |-> {}, fu |-> {}]

\* evaluator() from the pre-check on: env is what add_defaults returned
EvaluateChecked(p, env, cs, chk) ==
    IF chk.k = "exc"
    THEN Merged(Outcome(chk, <<"strip", "parse_algebra", "add_defaults",
                               "check_variables">>, p, env[1], env[2]), env[3])
    ELSE Merged(Outcome(handle_node(p.tree, env[1], env[2], cs),
                        <<"strip", "parse_algebra", "add_defaults", "check_variables",
                          "reduce_tree">>, p, env[1], env[2]), env[3])

EvaluateMerged(p, env, cs) ==
    EvaluateChecked(p, env, cs, check_variables(p.vu, p.fu, env[1], env[2], cs))

EvaluateParsed_checked(vars_, funs_, cs, p) ==
    IF ~p.ok /\ bad_vars(p.vu, p.fu, add_defaults(vars_, funs_, cs)[1],
                         add_defaults(vars_, funs_, cs)[2], cs) = {}
    THEN Outcome(Exc("ParseException", ""), <<"strip", "parse_algebra">>, p, NoEnv, NoEnv)
    ELSE EvaluateMerged(p, add_defaults(vars_, funs_, cs), cs)

\* evaluator() after parse_algebra: a ParseException leaves at once
EvaluateParsed(vars_, funs_, cs, p) ==
    IF ~p.ok
    THEN Outcome(Exc("ParseException", ""), <<"strip", "parse_algebra">>, p, NoEnv, NoEnv)
    ELSE EvaluateMerged(p, add_defaults(vars_, funs_, cs), cs)

\* evaluator(variables, functions, math_expr, case_sensitive)
evaluator(vars_, funs_, expr, cs) ==
    IF IsBlank(expr) THEN Outcome(NaN, <<"strip">>, NotParsed, NoEnv, NoEnv)
    ELSE EvaluateParsed(vars_, funs_, cs, parse_algebra(expr))

(***************************************************************************)
(* LatexRendered and the rendering actions of latex_preview()              *)
(* raw keeps the characters of a terminal, for the renderer that splits    *)
(* its text.                                                               *)
(***************************************************************************)
Rendered(latex, sans_parens, tall, raw) ==
    [latex |-> latex, sans_parens |-> sans_parens, tall |-> tall, raw |-> raw]

\* LatexRendered.__init__(latex, parens, tall); parens = "" stands for None.
\* parse_algebra produces no other parenthesis than "(".
LatexRendered(latex, parens, tall) ==
    IF parens = "" THEN Rendered(latex, latex, tall, <<>>)
    ELSE LET left_parens == IF parens = "{" THEN "\\{" ELSE parens
             right_parens == CASE left_parens = "(" -> ")"
                               [] left_parens = "[" -> "]"
                               [] left_parens = "\\{" -> "\\}"
         IN  Rendered((IF tall THEN "\\left" ELSE "") \o left_parens \o latex
                      \o (IF tall THEN "\\right" ELSE "") \o right_parens,
                      latex, tall, <<>>)

\* s.replace(backslash, backslash * 2)
RECURSIVE EscapeBackslash(_)
EscapeBackslash(s) ==
    IF s = <<>> THEN <<>>
    ELSE (IF s[1] = "\\" THEN <<"\\", "\\">> ELSE <<s[1]>>) \o EscapeBackslash(Tail(s))

wrap_escaped_strings(s) ==
    Rendered(Str(EscapeBackslash(s)), Str(EscapeBackslash(s)), FALSE, EscapeBackslash(s))

\* "".join(k.latex for k in children[from..to])
RECURSIVE JoinLatex(_, _, _)
JoinLatex(children, from, to) ==
    IF from > to THEN "" ELSE children[from].latex \o JoinLatex(children, from + 1, to)

\* render_number as it would be if a number with an exponent were not tall.
render_number_inline(children) ==
    LET n == Len(children)
        suffixed == children[n].latex \in SuffixChars
        suffix == IF suffixed THEN "\\text{" \o children[n].latex \o "}" ELSE ""
        last == IF suffixed THEN n - 1 ELSE n
        hasE == \E i \in 1..last : children[i].latex = "E"
        pos == CHOOSE i \in 1..last :
                   children[i].latex = "E" /\ \A j \in 1..(i - 1) : children[j].latex # "E"
    IN  IF hasE
        THEN LatexRendered(JoinLatex(children, 1, pos - 1) \o "\\!\\times\\!10^{"
                           \o JoinLatex(children, pos + 1, last) \o "}" \o suffix,
                           "", FALSE)
        ELSE LatexRendered(JoinLatex(children, 1, last) \o suffix, "", FALSE)

render_number(children) ==
    LET n == Len(children)
        suffixed == children[n].latex \in SuffixChars
        suffix == IF suffixed THEN "\\text{" \o children[n].latex \o "}" ELSE ""
        last == IF suffixed THEN n - 1 ELSE n
        hasE == \E i \in 1..last : children[i].latex = "E"
        pos == CHOOSE i \in 1..last :
                   children[i].latex = "E" /\ \A j \in 1..(i - 1) : children[j].latex # "E"
    IN  IF hasE
        THEN LatexRendered(JoinLatex(children, 1, pos - 1) \o "\\!\\times\\!10^{"
                           \o JoinLatex(children, pos + 1, last) \o "}" \o suffix,
                           "", TRUE)
        ELSE LatexRendered(JoinLatex(children, 1, last) \o suffix, "", FALSE)

greek ==
    {"alpha", "beta", "gamma", "delta", "epsilon", "varepsilon", "zeta",
     "eta", "theta", "vartheta", "iota", "kappa", "lambda", "mu", "nu",
     "xi", "pi", "rho", "sigma", "tau", "upsilon", "phi", "varphi", "chi",
     "psi", "omega", "Alpha", "Beta", "Gamma", "Delta", "Epsilon",
     "Varepsilon", "Zeta", "Eta", "Theta", "Vartheta", "Iota", "Kappa",
     "Lambda", "Mu", "Nu", "Xi", "Pi", "Rho", "Sigma", "Tau", "Upsilon",
     "Phi", "Varphi", "Chi", "Psi", "Omega", "hbar", "infty"}

\* varname.replace("_", r"\_")
RECURSIVE EscapeUnderscore(_)
EscapeUnderscore(s) ==
    IF s = <<>> THEN ""
    ELSE (IF s[1] = "_" THEN "\\_" ELSE s[1]) \o EscapeUnderscore(Tail(s))

enrich_varname(varname) ==
    IF Str(varname) \in greek THEN "\\" \o Str(varname) ELSE EscapeUnderscore(varname)

\* render_variable as it would be without the subscript.
render_variable_flat(children) ==
    LatexRendered(enrich_varname(children[1].raw), "", FALSE)

\* render_variable of variable_closure; the names allowed change nothing
\* (an unknown name passes).
render_variable(children) ==
    LET varname == children[1].raw
        u == IndexOf(varname, {"_"})
        first == IF u = 0 THEN varname ELSE SubSeq(varname, 1, u - 1)
        second == IF u = 0 THEN <<>> ELSE SubSeq(varname, u + 1, Len(varname))
    IN  IF second # <<>>
        THEN LatexRendered(enrich_varname(first) \o "_{" \o enrich_varname(second) \o "}",
                           "", FALSE)
        ELSE LatexRendered(enrich_varname(varname), "", FALSE)

\* render_function as it would be if the parentheses never grew.
render_function_plain(children) ==
    LatexRendered((IF children[1].latex = "sqrt" THEN "\\sqrt"
                   ELSE IF children[1].latex = "log10" THEN "\\log_{10}"
                   ELSE IF children[1].latex = "log2" THEN "\\log_2"
                   ELSE "\\text{" \o children[1].latex \o "}")
                  \o (IF children[1].latex = "sqrt" THEN "{" \o children[2].latex \o "}"
                      ELSE "(" \o children[2].latex \o ")"),
                  "", children[2].tall)

\* render_function of function_closure
render_function(children) ==
    LET fname == children[1].latex
        inner == IF fname = "sqrt" THEN "{" \o children[2].latex \o "}"
                 ELSE IF children[2].tall THEN "\\left(" \o children[2].latex \o "\\right)"
                 ELSE "(" \o children[2].latex \o ")"
        name == IF fname = "sqrt" THEN "\\sqrt"
                ELSE IF fname = "log10" THEN "\\log_{10}"
                ELSE IF fname = "log2" THEN "\\log_2"
                ELSE "\\text{" \o fname \o "}"
    IN  LatexRendered(name \o inner, "", children[2].tall)

\* reduce(raise_power, reversed(children_latex)), from the index i down
RECURSIVE RaisePowerFold(_, _, _)
RaisePowerFold(children_latex, i, x) ==
    IF i = 0 THEN x
    ELSE RaisePowerFold(children_latex, i - 1, children_latex[i] \o "^{" \o x \o "}")

\* render_power as it would be if the last operand kept its parentheses.
render_power_kept(children) ==
    IF Len(children) = 1 THEN children[1]
    ELSE LET kept == SelectSeq(children, LAMBDA k : k.latex # "^")
             children_latex == [i \in DOMAIN kept |-> kept[i].latex]
         IN  LatexRendered(RaisePowerFold(children_latex, Len(children_latex) - 1,
                                          children_latex[Len(children_latex)]),
                           "", TRUE)

render_power(children) ==
    IF Len(children) = 1 THEN children[1]
    ELSE LET kept == SelectSeq(children, LAMBDA k : k.latex # "^")
             children_latex == [i \in DOMAIN kept |->
                                   IF i = Len(kept) THEN children[Len(children)].sans_parens
                                   ELSE kept[i].latex]
         IN  LatexRendered(RaisePowerFold(children_latex, Len(children_latex) - 1,
                                          children_latex[Len(children_latex)]),
                           "", TRUE)

\* sep.join(k.latex for k in seq)
RECURSIVE JoinWith(_, _)
JoinWith(sep, seq) ==
    IF seq = <<>> THEN ""
    ELSE IF Len(seq) = 1 THEN seq[1].latex
    ELSE seq[1].latex \o sep \o JoinWith(sep, Tail(seq))

AnyTall(children) == \E i \in DOMAIN children : children[i].tall

render_parallel(children) ==
    IF Len(children) = 1 THEN children[1]
    ELSE LatexRendered(JoinWith("\\|", SelectSeq(children, LAMBDA k : k.latex # "||")),
                       "", AnyTall(children))

\* render_frac as it would be if a lone operand kept its parentheses.
render_frac_unstripped(numerator, denominator) ==
    "\\frac{" \o JoinWith("\\cdot ", numerator) \o "}{"
    \o JoinWith("\\cdot ", denominator) \o "}"

render_frac(numerator, denominator) ==
    LET num_latex == IF Len(numerator) = 1 THEN numerator[1].sans_parens
                     ELSE JoinWith("\\cdot ", numerator)
        den_latex == IF Len(denominator) = 1 THEN denominator[1].sans_parens
                     ELSE JoinWith("\\cdot ", denominator)
    IN  "\\frac{" \o num_latex \o "}{" \o den_latex \o "}"

\* The loop of render_product over children[i..]; st holds its locals.
RECURSIVE ProductScan(_, _, _)
ProductScan(children, i, st) ==
    IF i > Len(children) THEN st
    ELSE LET kid == children[i]
         IN  IF st.position = "numerator"
             THEN IF kid.latex = "*" THEN ProductScan(children, i + 1, st)
                  ELSE IF kid.latex = "/"
                  THEN ProductScan(children, i + 1,
                                   [st EXCEPT !.fraction_mode_ever = TRUE,
                                              !.position = "denominator"])
                  ELSE ProductScan(children, i + 1,
                                   [st EXCEPT !.numerator = Append(@, kid)])
             ELSE IF kid.latex = "*"
                  THEN ProductScan(children, i + 1,
                                   [st EXCEPT !.latex = @ \o render_frac(st.numerator,
                                                                         st.denominator)
                                                          \o "\\cdot ",
                                              !.position = "numerator",
                                              !.numerator = <<>>,
                                              !.denominator = <<>>])
                  ELSE IF kid.latex = "/" THEN ProductScan(children, i + 1, st)
                  ELSE ProductScan(children, i + 1,
                                   [st EXCEPT !.denominator = Append(@, kid)])

render_product(children) ==
    IF Len(children) = 1 THEN children[1]
    ELSE LET st == ProductScan(children, 1,
                               [position |-> "numerator", fraction_mode_ever |-> FALSE,
                                numerator |-> <<>>, denominator |-> <<>>, latex |-> ""])
             latex == IF st.position = "denominator"
                      THEN st.latex \o render_frac(st.numerator, st.denominator)
                      ELSE st.latex \o JoinWith("\\cdot ", st.numerator)
         IN  LatexRendered(latex, "", st.fraction_mode_ever \/ AnyTall(children))

render_sum(children) ==
    IF Len(children) = 1 THEN children[1]
    ELSE LatexRendered(JoinLatex(children, 1, Len(children)), "", AnyTall(children))

\* render_atom as it would be if the parentheses never grew and the atom in
\* parentheses were never tall.
render_atom_inline(children) ==
    IF Len(children) = 3
    THEN LatexRendered(children[2].latex, children[1].latex, FALSE)
    ELSE children[1]

render_atom(children) ==
    IF Len(children) = 3
    THEN LatexRendered(children[2].latex, children[1].latex, children[2].tall)
    ELSE children[1]

RECURSIVE render_node(_)

\* action(handled_kids) for the node's name
RenderAction(name, handled_kids) ==
    CASE name = "number" -> render_number(handled_kids)
      [] name = "variable" -> render_variable(handled_kids)
      [] name = "function" -> render_function(handled_kids)
      [] name = "atom" -> render_atom(handled_kids)
      [] name = "power" -> render_power(handled_kids)
      [] name = "parallel" -> render_parallel(handled_kids)
      [] name = "product" -> render_product(handled_kids)
      [] name = "sum" -> render_sum(handled_kids)

\* reduce_tree(render_actions, terminal_converter=wrap_escaped_strings)
render_node(node) ==
    IF node.name = "tok" THEN wrap_escaped_strings(node.s)
    ELSE RenderAction(node.name, [i \in DOMAIN node.kids |-> render_node(node.kids[i])])

\* A string handed back by latex_preview.
Latex(text) == Val("latex", 0, 1, 0, "", text, <<>>)

PreviewMerged(p, env) ==
    Merged(Outcome(Latex(render_node(p.tree).latex),
                   <<"strip", "parse_algebra", "add_defaults", "reduce_tree">>,
                   p, env[1], env[2]), env[3])

\* latex_preview() after parse_algebra
PreviewParsed(vars_, funs_, cs, p) ==
    IF ~p.ok
    THEN Outcome(Exc("ParseException", ""), <<"strip", "parse_algebra">>, p, NoEnv, NoEnv)
    ELSE PreviewMerged(p, add_defaults(vars_, funs_, cs))

\* latex_preview(math_expr, variables, functions, case_sensitive)
latex_preview(expr, vars_, funs_, cs) ==
    IF IsBlank(expr) THEN Outcome(Latex(""), <<"strip">>, NotParsed, NoEnv, NoEnv)
    ELSE PreviewParsed(vars_, funs_, cs, parse_algebra(expr))

(***************************************************************************)
(* The calls                                                               *)
(***************************************************************************)
\* The note a caller takes of the call name that has returned o.
Note(name, o) ==
    [on |-> TRUE, key |-> <<name, math_expr, variables, functions, case_sensitive>>,
     result |-> o.result]

\* A caller that keeps no notes, and one that has not noted a call yet.
NotNoting == [on |-> FALSE, key |-> <<>>, result |-> Val("none", 0, 1, 0, "", "", <<>>)]

NothingNoted == [NotNoting EXCEPT !.on = TRUE]

\* The call name returns (or raises) o. Neither call assigns to SUFFIXES or
\* to the mappings it was handed; a caller that keeps notes may note the call.
Returned(name, o) ==
    /\ result' = o.result
    /\ steps' = o.steps
    /\ tree' = o.tree
    /\ variables_used' = o.vu
    /\ functions_used' = o.fu
    /\ all_variables' = o.all_variables
    /\ all_functions' = o.all_functions
    /\ default_variables' = o.default_variables
    /\ default_functions' = o.default_functions
    /\ noted' \in (IF noted.on THEN {noted, Note(name, o)} ELSE {noted})
    /\ UNCHANGED <<math_expr, variables, functions, case_sensitive, suffixes>>
    /\ UNCHANGED docvars

\* The caller calls evaluator(variables, functions, math_expr, case_sensitive).
Evaluator ==
    /\ call' = "evaluator"
    /\ Returned("evaluator", evaluator(variables, functions, math_expr, case_sensitive))

\* The caller calls latex_preview(math_expr, variables, functions, case_sensitive).
LatexPreview ==
    /\ call' = "latex_preview"
    /\ Returned("latex_preview",
                latex_preview(math_expr, variables, functions, case_sensitive))

Next == Evaluator \/ LatexPreview

\* No converter has been constructed and no document converted.
NoConverter ==
    /\ xhtml = <<>>
    /\ converters = <<>>
    /\ DEFAULT_NPOINTS = 0
    /\ history = <<>>

\* Before any call, with the arguments drawn from the given sets.
InitWith(exprs, varEnvs, funEnvs) ==
    /\ NoConverter
    /\ math_expr \in exprs
    /\ variables \in varEnvs
    /\ functions \in funEnvs
    /\ case_sensitive \in BOOLEAN
    /\ call = "none"
    /\ result = Val("none", 0, 1, 0, "", "", <<>>)
    /\ steps = <<>>
    /\ tree = NoTree
    /\ variables_used = {}
    /\ functions_used = {}
    /\ all_variables = NoEnv
    /\ all_functions = NoEnv
    /\ default_variables = DEFAULT_VARIABLES
    /\ default_functions = DEFAULT_FUNCTIONS
    /\ suffixes = SUFFIXES
    /\ noted = NotNoting

\* The sequences of 1 to n elements of S.
SeqsUpTo(S, n) == UNION {[1..k -> S] : k \in 1..n}

\* parts joined by sep
RECURSIVE Joined(_, _)
Joined(parts, sep) ==
    IF Len(parts) = 1 THEN parts[1] ELSE parts[1] \o sep \o Joined(Tail(parts), sep)

(***************************************************************************)
(* Expressions over identifiers: sums of up to MaxTerms atoms, each a      *)
(* variable or a function call, under a few caller environments.           *)
(***************************************************************************)
MaxTerms == 2

IdentAtoms ==
    {<<"x">>, <<"E">>, <<"T">>, <<"t">>, <<"Z">>,
     <<"f", "(", "2", ")">>, <<"s", "i", "n", "(", "E", ")">>, <<"x", "(", "2", ")">>}

IdentExprs == {Joined(ts, <<"+">>) : ts \in SeqsUpTo(IdentAtoms, MaxTerms)}

IdentVarEnvs ==
    {<<>>,
     << <<<<"x">>, Num(1, 1, 0)>> >>,
     << <<<<"t">>, Num(1, 1, 0)>>, <<<<"T">>, Num(2, 1, 0)>> >>,
     << <<<<"T">>, Num(2, 1, 0)>>, <<<<"t">>, Num(1, 1, 0)>> >>,
     << <<<<"f">>, Num(3, 1, 0)>>, <<<<"e">>, Num(4, 1, 0)>> >>}

IdentFunEnvs ==
    {<<>>, << <<<<"f">>, "caller.f">> >>, << <<<<"X">>, "caller.X">>, <<<<"x">>, "caller.x">> >>}

InitIdent == InitWith(IdentExprs, IdentVarEnvs, IdentFunEnvs)

SpecIdent == InitIdent /\ [][Next]_vars

(***************************************************************************)
(* Properties of calls on expressions over identifiers                     *)
(***************************************************************************)
\* The node reached from node through the groups that hold a single child.
RECURSIVE Sole(_)
Sole(node) ==
    IF node.name \in {"sum", "product", "parallel", "power", "atom"} /\ Len(node.kids) = 1
    THEN Sole(node.kids[1])
    ELSE node

\* The names the tree references in nodes of the given kind.
RECURSIVE TreeNames(_, _)
TreeNames(node, kind) ==
    (IF node.name = kind THEN {node.kids[1].s} ELSE {})
    \cup UNION {TreeNames(node.kids[i], kind) : i \in DOMAIN node.kids}

\* The names defined for the call: the defaults and the caller's, normalized.
MergedNames(defaults, given) ==
    {casify(case_sensitive, k) : k \in Keys(defaults) \cup Keys(given)}

\* The names of the parsed expression that the call leaves undefined.
Offending ==
    {v \in TreeNames(tree, "variable") :
        casify(case_sensitive, v) \notin MergedNames(DEFAULT_VARIABLES, variables)}
    \cup {f \in TreeNames(tree, "function") :
        casify(case_sensitive, f) \notin MergedNames(DEFAULT_FUNCTIONS, functions)}

\* The elements of S in increasing order.
InOrder(S) ==
    CHOOSE s \in [1..Cardinality(S) -> S] :
        \A i \in DOMAIN s : \A j \in DOMAIN s : i < j => StrLess(s[i], s[j])

\* The dictionaries the defaults and the caller's entries merge into.
MergedDicts == add_defaults_dict(variables, functions, case_sensitive)

Evaluated == call = "evaluator" /\ steps # <<>> /\ steps[Len(steps)] = "reduce_tree"

\* C1: once the expression has parsed and passed the pre-check, a variable
\* evaluates to the value bound to its normalized name in the merged
\* environment, and a function call to the merged environment's function
\* applied to the reduced argument ("E" alone, case-insensitively and with no
\* caller variables, gives the default e).
VariableAndFunctionLookup ==
    Evaluated =>
        /\ Sole(tree).name = "variable" =>
              result = DictGet(MergedDicts[1].items,
                               casify(case_sensitive, Sole(tree).kids[1].s))
        /\ Sole(tree).name = "function" =>
              result = Applied(DictGet(MergedDicts[2].items,
                                       casify(case_sensitive, Sole(tree).kids[1].s)),
                               handle_node(Sole(tree).kids[2], MergedDicts[1],
                                           MergedDicts[2], case_sensitive))
        /\ (math_expr = <<"E">> /\ ~case_sensitive /\ variables = <<>>) =>
              result = Const("numpy.e")

\* C2: evaluator raises UndefinedVariable exactly when the parsed expression
\* references a variable name absent from the merged variable names or a
\* function name absent from the merged function names, and the message is
\* all the distinct offending names, sorted and joined by single spaces.
UndefinedVariableIffAbsent ==
    (call = "evaluator" /\ tree # NoTree) =>
        /\ (result.k = "exc" /\ result.x = "UndefinedVariable") <=> Offending # {}
        /\ Offending # {} =>
              result = Exc("UndefinedVariable", JoinSpace(InOrder(Offending)))

\* Reached: two names are undefined, one of them used as a function.
SeveralUndefinedNames ==
    /\ call = "evaluator"
    /\ tree # NoTree
    /\ Cardinality(Offending) >= 2
    /\ Offending \cap TreeNames(tree, "function") # {}
    /\ result.x = "UndefinedVariable"

\* The exception types an arithmetic primitive raises.
NumericErrors == {"ZeroDivisionError", "OverflowError", "ValueError"}

\* C3: evaluator returns a number, or fails with a parse error, an
\* UndefinedVariable or a numeric error of an arithmetic primitive, and with
\* nothing else.
OnlyDocumentedFailures ==
    call = "evaluator" =>
        \/ IsNumber(result)
        \/ /\ result.k = "exc"
           /\ result.x \in {"ParseException", "UndefinedVariable"} \cup NumericErrors

\* The value of the caller's last entry whose normalized name is key.
LastInserted(given, key) ==
    given[CHOOSE i \in DOMAIN given :
              /\ casify(case_sensitive, given[i][1]) = key
              /\ \A j \in DOMAIN given :
                    casify(case_sensitive, given[j][1]) = key => j <= i][2]

\* C9: in the merged environment built for a call, a key the caller supplied
\* is bound to the caller's most recently inserted entry with that normalized
\* key, and any other key to its default.
CallerLastInsertedWins ==
    all_variables.kind # "none" =>
        /\ all_variables.kind = "dict"
        /\ \A key \in MergedNames(DEFAULT_VARIABLES, variables) :
              DictGet(all_variables.items, key) =
                  IF key \in MergedNames(<<>>, variables)
                  THEN LastInserted(variables, key)
                  ELSE LastInserted(DEFAULT_VARIABLES, key)

(***************************************************************************)
(* Raw input: every string of up to MaxLen characters of RawAlphabet        *)
(***************************************************************************)
MaxLen == 3

RawAlphabet == {"2", "x", "+", "*", "(", ")", " ", "\f", "$"}

RawExprs == {<<>>} \cup SeqsUpTo(RawAlphabet, MaxLen)

RawVarEnvs == {<<>>, << <<<<"x">>, Num(1, 1, 0)>> >>}

RawFunEnvs == {<<>>, << <<<<"x">>, "caller.x">> >>}

InitRaw == InitWith(RawExprs, RawVarEnvs, RawFunEnvs)

SpecRaw == InitRaw /\ [][Next]_vars

\* The characters of expr that are not whitespace to the parser.
Visible(expr) == SelectSeq(expr, LAMBDA c : c \notin PyparsingWhite)

\* The nesting depth after expr[i..], from depth; -1 once a ")" closes nothing.
RECURSIVE ParenDepth(_, _, _)
ParenDepth(expr, i, depth) ==
    IF depth < 0 \/ i > Len(expr) THEN depth
    ELSE ParenDepth(expr, i + 1,
                    CASE expr[i] = "(" -> depth + 1
                      [] expr[i] = ")" -> depth - 1
                      [] OTHER -> depth)

UnbalancedParentheses(expr) == ParenDepth(expr, 1, 0) # 0

\* An operator or an opening parenthesis with no operand where one is due.
MissingOperand(expr) ==
    /\ Visible(expr) # <<>>
    /\ \/ Visible(expr)[1] = "*"
       \/ Visible(expr)[Len(Visible(expr))] \in {"+", "*"}
       \/ \E i \in 1..(Len(Visible(expr)) - 1) :
             /\ Visible(expr)[i] \in {"+", "*", "("}
             /\ Visible(expr)[i + 1] \in {"*", ")"}

InvalidCharacter(expr) == \E i \in DOMAIN expr : expr[i] \in {"$", "\f"}

\* A complete operand, then a further operand with no operator between them.
TextAfterExpression(expr) ==
    \E i \in DOMAIN expr : \E j \in DOMAIN expr :
        /\ i < j
        /\ \A m \in (i + 1)..(j - 1) : expr[m] \in PyparsingWhite
        /\ \/ expr[i] \in {"2", "x"} /\ j > i + 1 /\ expr[j] \in {"2", "x"}
           \/ expr[i] = ")" /\ expr[j] \in {"2", "x", "("}

Malformed(expr) ==
    \/ UnbalancedParentheses(expr)
    \/ MissingOperand(expr)
    \/ InvalidCharacter(expr)
    \/ TextAfterExpression(expr)

\* What strip() leaves nothing of.
Blank(expr) == \A i \in DOMAIN expr : expr[i] \in {" ", "\t", "\n", "\r", "\f"}

\* C4: on a non-blank input with unbalanced parentheses, a missing operand,
\* an invalid character or text left after a complete expression, evaluator
\* and latex_preview both raise a parse error and hand back nothing else.
MalformedInputRaisesParseException ==
    (call # "none" /\ ~Blank(math_expr) /\ Malformed(math_expr)) =>
        /\ result.k = "exc"
        /\ result.x = "ParseException"
        /\ tree = NoTree

\* Reached: latex_preview has refused "2 2", whose only fault is the text
\* after the first number.
TrailingTextRefused ==
    /\ call = "latex_preview"
    /\ math_expr = <<"2", " ", "2">>
    /\ TextAfterExpression(math_expr)
    /\ ~UnbalancedParentheses(math_expr)
    /\ ~MissingOperand(math_expr)
    /\ ~InvalidCharacter(math_expr)
    /\ result.x = "ParseException"

\* C8: on an empty or whitespace-only expression evaluator returns
\* not-a-number and latex_preview the empty string, the parser not being
\* invoked and nothing raised, whatever the other arguments.
BlankInputSkipsParser ==
    (call # "none" /\ Blank(math_expr)) =>
        /\ steps = <<"strip">>
        /\ call = "evaluator" => result = NaN
        /\ call = "latex_preview" => result = Latex("")

\* Reached: latex_preview has answered a whitespace-only expression, the
\* caller having passed variables and functions.
WhitespaceOnlyPreviewed ==
    /\ call = "latex_preview"
    /\ math_expr = <<" ", "\f">>
    /\ variables # <<>>
    /\ functions # <<>>
    /\ result = Latex("")

(***************************************************************************)
(* Chains: up to MaxOperands numeric operands joined by "^" or by "||"     *)
(* A sign before the first operand would belong to the enclosing sum, not  *)
(* to the chain, so the first operand is unsigned.                         *)
(***************************************************************************)
MaxOperands == 3

FirstOperands ==
    {<<"2">>, <<"3">>, <<"0">>, <<"5">>, <<"0", ".", "0">>, <<"(", "1", "-", "1", ")">>}

LaterOperands == FirstOperands \cup {<<"-", "1">>}

ChainOperands ==
    {ts \in SeqsUpTo(LaterOperands, MaxOperands) : ts[1] \in FirstOperands}

ChainExprs == {Joined(ts, op) : ts \in ChainOperands, op \in {<<"^">>, <<"|", "|">>}}

InitChain == InitWith(ChainExprs, {<<>>}, {<<>>})

SpecChain == InitChain /\ [][Next]_vars

\* The pieces of expr[i..] between the characters of S outside parentheses;
\* cur is the piece being read.
RECURSIVE Pieces(_, _, _, _, _)
Pieces(expr, S, i, depth, cur) ==
    IF i > Len(expr) THEN <<cur>>
    ELSE IF depth = 0 /\ expr[i] \in S
    THEN <<cur>> \o Pieces(expr, S, i + 1, 0, <<>>)
    ELSE Pieces(expr, S, i + 1,
                CASE expr[i] = "(" -> depth + 1
                  [] expr[i] = ")" -> depth - 1
                  [] OTHER -> depth,
                Append(cur, expr[i]))

\* The operands of a chain whose operators are made of the characters of S.
Operands(expr, S) == SelectSeq(Pieces(expr, S, 1, 0, <<>>), LAMBDA piece : piece # <<>>)

\* What each operand evaluates to on its own.
OperandValues(expr, S) ==
    [i \in DOMAIN Operands(expr, S) |->
        evaluator(<<>>, <<>>, Operands(expr, S)[i], case_sensitive).result]

\* a1^(a2^(...^an)) over the values vs
RECURSIVE RightNested(_)
RightNested(vs) ==
    IF Len(vs) = 1 \/ vs[1].k = "exc" THEN vs[1]
    ELSE IF RightNested(Tail(vs)).k = "exc" THEN RightNested(Tail(vs))
    ELSE Power(vs[1], RightNested(Tail(vs)))

IsPowerChain == \A i \in DOMAIN math_expr : math_expr[i] # "|"

IsParallelChain == \A i \in DOMAIN math_expr : math_expr[i] # "^"

\* C5: a chain a1^a2^...^an of numeric operands evaluates to
\* a1^(a2^(...^an)); "2^3^2" is 512.
PowerRightAssociative ==
    (call = "evaluator" /\ IsPowerChain) =>
        /\ result = RightNested(OperandValues(math_expr, {"^"}))
        /\ math_expr = <<"2", "^", "3", "^", "2">> => result = Num(512, 1, 0)

\* Reached: "2^3^2" has evaluated to 512.
TwoToTheNine ==
    /\ call = "evaluator"
    /\ math_expr = <<"2", "^", "3", "^", "2">>
    /\ result = Num(512, 1, 0)

\* C6: a parallel chain of two or more operands one of which evaluates to
\* exactly zero gives not-a-number, whatever the position of the zero.
ParallelWithZeroIsNaN ==
    (/\ call = "evaluator"
     /\ IsParallelChain
     /\ Len(Operands(math_expr, {"|"})) >= 2
     /\ \E i \in DOMAIN Operands(math_expr, {"|"}) :
           IsZero(OperandValues(math_expr, {"|"})[i]))
    => result = NaN

\* Reached: a chain of three operands whose last one alone is zero, computed
\* zero, has given not-a-number.
ZeroLastInParallel ==
    /\ call = "evaluator"
    /\ math_expr = <<"5">> \o <<"|", "|">> \o <<"2">> \o <<"|", "|">>
                   \o <<"(", "1", "-", "1", ")">>
    /\ result = NaN

(***************************************************************************)
(* Numeric literals: sign, mantissa of digit runs of up to MaxDigits       *)
(* digits (MaxDigits + 1 in all around a point), exponent, and an SI       *)
(* suffix or none                                                          *)
(***************************************************************************)
MaxDigits == 2

DigitRuns == SeqsUpTo({"0", "5"}, MaxDigits)

Mantissas ==
    DigitRuns
    \cup {ip \o <<".">> : ip \in DigitRuns}
    \cup {pr[1] \o <<".">> \o pr[2] :
             pr \in {pr \in DigitRuns \X DigitRuns : Len(pr[1]) + Len(pr[2]) <= MaxDigits + 1}}
    \cup {<<".">> \o fp : fp \in DigitRuns}

Signs == {<<>>, <<"+">>, <<"-">>}

Exponents == {<<>>, <<"E", "2">>, <<"e", "-", "1">>}

Suffixes == {<<>>} \cup {<<c>> : c \in SuffixChars}

LiteralExprs ==
    {sg \o mt \o ex \o sf :
        sg \in Signs, mt \in Mantissas, ex \in Exponents, sf \in Suffixes}

InitLiteral == InitWith(LiteralExprs, {<<>>}, {<<>>})

SpecLiteral == InitLiteral /\ [][Next]_vars

\* C7: a numeric literal L followed by an SI suffix s evaluates to
\* float(L) * SUFFIXES[s], and a literal without suffix to float(L).
LiteralTimesSuffix ==
    call = "evaluator" =>
        result = IF math_expr[Len(math_expr)] \in SuffixChars
                 THEN Mul(float(SubSeq(math_expr, 1, Len(math_expr) - 1)),
                          SUFFIXES[math_expr[Len(math_expr)]])
                 ELSE float(math_expr)

\* Reached: "-.5e-1k" has evaluated to -50.
SignedScaledLiteral ==
    /\ call = "evaluator"
    /\ math_expr = <<"-", ".", "5", "e", "-", "1", "k">>
    /\ result = Num(-5, 1, 1)

(***************************************************************************)
(* Products: up to MaxFactors operands, the i-th named by the i-th letter  *)
(* and written bare or as a parenthesized sum, joined by "*" and "/"       *)
(***************************************************************************)
MaxFactors == 5

FactorNames == <<"a", "b", "c", "d", "e", "f", "g", "h">>

Factor(i, wrapped) ==
    IF wrapped THEN <<"(", FactorNames[i], "+", "1", ")">> ELSE <<FactorNames[i]>>

\* factor 1, op 1, factor 2, ..., factor n
RECURSIVE Interleaved(_, _, _)
Interleaved(wrapped, ops, i) ==
    IF i = Len(wrapped) THEN Factor(i, wrapped[i])
    ELSE Factor(i, wrapped[i]) \o <<ops[i]>> \o Interleaved(wrapped, ops, i + 1)

ProductExprs ==
    UNION {{Interleaved(wrapped, ops, 1) :
               wrapped \in [1..n -> BOOLEAN], ops \in [1..(n - 1) -> {"*", "/"}]} :
           n \in 1..MaxFactors}

InitProduct == InitWith(ProductExprs, {<<>>}, {<<>>})

SpecProduct == InitProduct /\ [][Next]_vars

\* The "*" and "/" of the chain, in order.
ChainOps(expr) ==
    SelectSeq([i \in DOMAIN expr |->
                  IF ParenDepth(SubSeq(expr, 1, i - 1), 1, 0) = 0 THEN expr[i] ELSE "("],
              LAMBDA c : c \in {"*", "/"})

\* The rendering of the i-th operand on its own.
OperandLatex(expr, i) ==
    latex_preview(Operands(expr, {"*", "/"})[i], <<>>, <<>>, case_sensitive).result.m

\* The rendering of the i-th operand without its enclosing parentheses.
OperandStripped(expr, i) ==
    IF Operands(expr, {"*", "/"})[i][1] = "("
    THEN latex_preview(SubSeq(Operands(expr, {"*", "/"})[i], 2,
                              Len(Operands(expr, {"*", "/"})[i]) - 1),
                       <<>>, <<>>, case_sensitive).result.m
    ELSE OperandLatex(expr, i)

\* The operands a group starts at: the first, and each one after a "*" that
\* follows a denominator.
GroupStarts(ops) ==
    {1} \cup {k + 1 : k \in {k \in 2..Len(ops) : ops[k] = "*" /\ ops[k - 1] = "/"}}

GroupEnd(ops, from) ==
    IF \E g \in GroupStarts(ops) : g > from
    THEN (CHOOSE g \in GroupStarts(ops) :
              g > from /\ \A h \in GroupStarts(ops) : h > from => g <= h) - 1
    ELSE Len(ops) + 1

\* The operands from..to on the given side of the fraction, in order.
SideOf(ops, from, to, denominator) ==
    SelectSeq([i \in 1..(to - from + 1) |-> from + i - 1],
              LAMBDA i : denominator <=> (i > from /\ ops[i - 1] = "/"))

\* The operands ix joined by "\cdot ".
RECURSIVE CdotJoined(_, _)
CdotJoined(expr, ix) ==
    IF Len(ix) = 1 THEN OperandLatex(expr, ix[1])
    ELSE OperandLatex(expr, ix[1]) \o "\\cdot " \o CdotJoined(expr, Tail(ix))

FractionPart(expr, ix) ==
    IF Len(ix) = 1 THEN OperandStripped(expr, ix[1]) ELSE CdotJoined(expr, ix)

GroupLatex(expr, ops, from, to) ==
    IF SideOf(ops, from, to, TRUE) = <<>>
    THEN CdotJoined(expr, SideOf(ops, from, to, FALSE))
    ELSE "\\frac{" \o FractionPart(expr, SideOf(ops, from, to, FALSE)) \o "}{"
         \o FractionPart(expr, SideOf(ops, from, to, TRUE)) \o "}"

\* The groups from the one starting at from on, joined by "\cdot ".
RECURSIVE GroupsLatex(_, _, _)
GroupsLatex(expr, ops, from) ==
    IF GroupEnd(ops, from) = Len(ops) + 1
    THEN GroupLatex(expr, ops, from, GroupEnd(ops, from))
    ELSE GroupLatex(expr, ops, from, GroupEnd(ops, from)) \o "\\cdot "
         \o GroupsLatex(expr, ops, GroupEnd(ops, from) + 1)

\* C10: latex_preview renders a product chain group by group, a new group
\* starting at each "*" that follows a denominator: a group with a "/" as
\* \frac{N}{D}, N and D being its numerator and denominator operands joined by
\* "\cdot " (a lone operand without its parentheses), a last group without
\* "/" as its operands joined by "\cdot ", the groups joined by "\cdot ".
ProductRenderedByGroups ==
    call = "latex_preview" =>
        /\ result = Latex(GroupsLatex(math_expr, ChainOps(math_expr), 1))
        /\ math_expr = <<"a", "*", "b", "/", "c", "/", "d">> =>
              result = Latex("\\frac{a\\cdot b}{c\\cdot d}")
        /\ math_expr = <<"a", "/", "b", "*", "c", "/", "d", "*", "e">> =>
              result = Latex("\\frac{a}{b}\\cdot \\frac{c}{d}\\cdot e")

\* Reached: "(a+1)/b*c/d*e" has been rendered as two fractions and a bare
\* last operand, the parentheses of the lone numerator gone.
TwoFractionsThenOperand ==
    /\ call = "latex_preview"
    /\ math_expr = <<"(", "a", "+", "1", ")", "/", "b", "*", "c", "/", "d", "*", "e">>
    /\ result = Latex("\\frac{a+1}{b}\\cdot \\frac{c}{d}\\cdot e")

(***************************************************************************)
(* Function calls: a name applied to an argument, calls nested up to       *)
(* MaxNesting deep                                                         *)
(***************************************************************************)
MaxNesting == 2

CalledNames ==
    {<<"s", "q", "r", "t">>, <<"l", "o", "g", "2">>, <<"l", "o", "g", "1", "0">>,
     <<"s", "i", "n">>, <<"S", "q", "r", "t">>, <<"g">>}

PlainArguments ==
    {<<"x">>, <<"2">>, <<"a", "+", "b">>, <<"a", "/", "b">>, <<"x", "^", "2">>,
     <<"1", "E", "2">>}

\* The calls nested up to depth deep.
RECURSIVE CallExprs(_)
CallExprs(depth) ==
    IF depth = 0 THEN {}
    ELSE {f \o <<"(">> \o arg \o <<")">> :
             f \in CalledNames, arg \in PlainArguments \cup CallExprs(depth - 1)}

InitCall == InitWith(CallExprs(MaxNesting), {<<>>}, {<<>>})

SpecCall == InitCall /\ [][Next]_vars

\* The name called by expr, and the argument between its parentheses.
CalledName(expr) == SubSeq(expr, 1, IndexOf(expr, {"("}) - 1)

CallArgument(expr) == SubSeq(expr, IndexOf(expr, {"("}) + 1, Len(expr) - 1)

\* Whether the argument renders tall: it holds a fraction, a power or a
\* number with an exponent.
TallArgument(arg) == \E i \in DOMAIN arg : arg[i] \in {"/", "^", "E"}

FunctionHead(name) ==
    CASE name = <<"s", "q", "r", "t">> -> "\\sqrt"
      [] name = <<"l", "o", "g", "2">> -> "\\log_2"
      [] name = <<"l", "o", "g", "1", "0">> -> "\\log_{10}"
      [] OTHER -> "\\text{" \o Str(name) \o "}"

\* The rendering of arg as the argument of name.
FunctionBody(name, arg) ==
    IF name = <<"s", "q", "r", "t">>
    THEN "{" \o latex_preview(arg, <<>>, <<>>, case_sensitive).result.m \o "}"
    ELSE IF TallArgument(arg)
    THEN "\\left(" \o latex_preview(arg, <<>>, <<>>, case_sensitive).result.m \o "\\right)"
    ELSE "(" \o latex_preview(arg, <<>>, <<>>, case_sensitive).result.m \o ")"

\* C11: latex_preview renders f(arg) as \sqrt{A} for sqrt, \log_2(A) for
\* log2, \log_{10}(A) for log10 and \text{f}(A) for any other name, A being
\* the rendering of arg, with \left( \right) exactly when A is tall.
FunctionRendering ==
    call = "latex_preview" =>
        result = Latex(FunctionHead(CalledName(math_expr))
                       \o FunctionBody(CalledName(math_expr), CallArgument(math_expr)))

\* Reached: a call of an ordinary name on a tall argument, itself a call, has
\* been rendered with full-height parentheses.
TallArgumentRendered ==
    /\ call = "latex_preview"
    /\ math_expr = <<"g", "(", "s", "i", "n", "(", "a", "/", "b", ")", ")">>
    /\ result = Latex("\\text{g}\\left(\\text{sin}\\left(\\frac{a}{b}\\right)\\right)")

(***************************************************************************)
(* Sessions: any sequence of calls, the caller choosing new arguments      *)
(* between them, some of whose names collide with the defaults             *)
(***************************************************************************)
SessionExprs == {<<"x">>, <<"T">>, <<"s", "i", "n", "(", "2", "k", ")">>}

SessionVarEnvs ==
    {<<>>,
     << <<<<"x">>, Num(1, 1, 0)>> >>,
     << <<<<"T">>, Num(2, 1, 0)>>, <<<<"t">>, Num(1, 1, 0)>> >>}

SessionFunEnvs == {<<>>, << <<<<"s", "i", "n">>, "caller.sin">>, <<<<"x">>, "caller.x">> >>}

\* The caller gets the arguments of its next call ready.
ChooseArguments ==
    /\ math_expr' \in SessionExprs
    /\ variables' \in SessionVarEnvs
    /\ functions' \in SessionFunEnvs
    /\ case_sensitive' \in BOOLEAN
    /\ call' = "none"
    /\ result' = Val("none", 0, 1, 0, "", "", <<>>)
    /\ steps' = <<>>
    /\ tree' = NoTree
    /\ variables_used' = {}
    /\ functions_used' = {}
    /\ all_variables' = NoEnv
    /\ all_functions' = NoEnv
    /\ UNCHANGED <<default_variables, default_functions, suffixes, noted>>
    /\ UNCHANGED docvars

NextSession == Evaluator \/ LatexPreview \/ ChooseArguments

InitSession ==
    /\ NoConverter
    /\ math_expr \in SessionExprs
    /\ variables \in SessionVarEnvs
    /\ functions \in SessionFunEnvs
    /\ case_sensitive \in BOOLEAN
    /\ call = "none"
    /\ result = Val("none", 0, 1, 0, "", "", <<>>)
    /\ steps = <<>>
    /\ tree = NoTree
    /\ variables_used = {}
    /\ functions_used = {}
    /\ all_variables = NoEnv
    /\ all_functions = NoEnv
    /\ default_variables = DEFAULT_VARIABLES
    /\ default_functions = DEFAULT_FUNCTIONS
    /\ suffixes = SUFFIXES
    /\ noted = NothingNoted

SpecSession == InitSession /\ [][NextSession]_vars

\* The module tables are as the module defined them.
TablesIntact ==
    /\ default_variables = DEFAULT_VARIABLES
    /\ default_functions = DEFAULT_FUNCTIONS
    /\ suffixes = SUFFIXES

\* The call just made is the one the caller has a note of.
RepeatsNoted ==
    /\ call # "none"
    /\ noted.key = <<call, math_expr, variables, functions, case_sensitive>>

\* C12: after any sequence of evaluator and latex_preview calls the module
\* tables DEFAULT_VARIABLES, DEFAULT_FUNCTIONS and SUFFIXES are as they were,
\* no call changes the mappings its caller handed it, and a call repeated with
\* the same arguments gives the result it gave before, whatever was called
\* in between.
TablesIntactCallsRepeatable ==
    /\ [](TablesIntact /\ (RepeatsNoted => result = noted.result))
    /\ [][call' # "none" => (variables' = variables /\ functions' = functions)]_vars

\* Reached: with caller names colliding with the defaults, an evaluator call
\* noted earlier has been repeated after a call with other arguments.
RepeatedAfterOtherCalls ==
    /\ RepeatsNoted
    /\ call = "evaluator"
    /\ math_expr = <<"T">>
    /\ variables # <<>>
    /\ functions # <<>>
    /\ all_variables.keys # {}
    /\ result = noted.result

(***************************************************************************)
(* Parallel chains of SpecChain: the formula and the order of the operands *)
(***************************************************************************)
\* 1. / (1. / vs[1] + ... + 1. / vs[n]), the reciprocals added in this order
ParallelFormula(vs) ==
    IF \E i \in DOMAIN vs : ~Tracked(vs[i]) THEN Other
    ELSE IF Sum64(vs, Len(vs)).sg = 0
    THEN Exc("ZeroDivisionError", "float division by zero")
    ELSE FromBinary64(Div64(FromInt(1), Sum64(vs, Len(vs))),
                      Reciprocal(ReciprocalSum(vs, Num(0, 1, 0))))

\* The orders of n operands
Orders(n) == {f \in [1..n -> 1..n] : \A i, j \in 1..n : f[i] = f[j] => i = j}

\* The chain of the operands ops in the order f
Reordered(ops, f) == Joined([i \in DOMAIN ops |-> ops[f[i]]], <<"|", "|">>)

\* The orders of the operands that are chains of the family again: a signed
\* operand in front would be a sum with a leading sign.
ChainOrders(ops) == {f \in Orders(Len(ops)) : ops[f[1]] \in FirstOperands}

\* What the operand op of the family is worth, read off its text.
ChainOperandValue(op) ==
    IF op = <<"(", "1", "-", "1", ")">> THEN Num(0, 1, 0) ELSE super_float(op)

\* The values of the operands of the parallel chain math_expr
ParallelValues ==
    [i \in DOMAIN Operands(math_expr, {"|"}) |->
        ChainOperandValue(Operands(math_expr, {"|"})[i])]

\* A parallel chain of numbers none of which is zero has been evaluated.
NonzeroParallel ==
    /\ call = "evaluator"
    /\ IsParallelChain
    /\ \A i \in DOMAIN ParallelValues : ~IsZero(ParallelValues[i])

\* Every order f among fs of the chain's operands evaluates to the result.
SameInOrders(fs) ==
    \A f \in fs :
        evaluator(<<>>, <<>>, Reordered(Operands(math_expr, {"|"}), f),
                  case_sensitive).result = result

\* C20 as stated: a parallel chain of n >= 2 nonzero operands evaluates to
\* 1/(1/x1 + ... + 1/xn) and to the same value in every order of its
\* operands; a single operand is returned unchanged, zero included.
ParallelOrderIndependent ==
    /\ (NonzeroParallel /\ Len(ParallelValues) >= 2) =>
          /\ result = ParallelFormula(ParallelValues)
          /\ SameInOrders(ChainOrders(Operands(math_expr, {"|"})))
    /\ (call = "evaluator" /\ IsParallelChain /\ Len(ParallelValues) = 1) =>
          result = ParallelValues[1]

\* C20, amended: a parallel chain of n >= 2 nonzero operands evaluates to
\* 1/(1/x1 + ... + 1/xn), the reciprocals added from left to right in
\* binary64; a chain of two operands evaluates to the same value in either
\* order; a single operand is returned unchanged, zero included.
ParallelFormulaPairsCommute ==
    /\ (NonzeroParallel /\ Len(ParallelValues) >= 2) =>
          result = ParallelFormula(ParallelValues)
    /\ (NonzeroParallel /\ Len(ParallelValues) = 2) =>
          SameInOrders(ChainOrders(Operands(math_expr, {"|"})))
    /\ (call = "evaluator" /\ IsParallelChain /\ Len(ParallelValues) = 1) =>
          result = ParallelValues[1]

\* Reached: "5||2" has evaluated to what "2||5" evaluates to, a double that
\* is not the nearest one to 10/7.
PairEvaluatedBothWays ==
    /\ call = "evaluator"
    /\ math_expr = <<"5", "|", "|", "2">>
    /\ result = evaluator(<<>>, <<>>, <<"2", "|", "|", "5">>, case_sensitive).result
    /\ result.k \in {"num", "double"}
    /\ result = ParallelFormula(<<Num(5, 1, 0), Num(2, 1, 0)>>)

(***************************************************************************)
(* Product and sum chains of up to MaxFold numeric operands: products,     *)
(* sums with an optional leading sign, and a signed product followed by a  *)
(* term                                                                    *)
(***************************************************************************)
MaxFold == 3

FoldOperands == {<<"2">>, <<"3">>, <<"5">>}

\* xs[1] ops[1] xs[2] ops[2] ... xs[n]
RECURSIVE Alternating(_, _)
Alternating(xs, ops) ==
    IF Len(xs) = 1 THEN xs[1]
    ELSE xs[1] \o ops[1] \o Alternating(Tail(xs), Tail(ops))

ChainsOver(S) ==
    UNION {{Alternating(xs, ops) : xs \in [1..k -> FoldOperands],
                                   ops \in [1..(k - 1) -> S]} : k \in 1..MaxFold}

ProductChains == ChainsOver({<<"*">>, <<"/">>})

SumChains ==
    {sign \o chain : sign \in {<<>>, <<"-">>, <<"+">>},
                     chain \in ChainsOver({<<"+">>, <<"-">>})}

SignedProducts ==
    {sign \o a \o op \o b \o pm \o c :
        sign \in {<<"-">>, <<"+">>}, a \in FoldOperands, op \in {<<"*">>, <<"/">>},
        b \in FoldOperands, pm \in {<<"+">>, <<"-">>}, c \in FoldOperands}

FoldExprs == ProductChains \cup SumChains \cup SignedProducts

InitFold == InitWith(FoldExprs, {<<>>}, {<<>>})

SpecFold == InitFold /\ [][Next]_vars

\* The operators of S in expr outside parentheses, in order
OpsOf(expr, S) ==
    SelectSeq([i \in DOMAIN expr |->
                  IF ParenDepth(SubSeq(expr, 1, i - 1), 1, 0) = 0 THEN expr[i] ELSE "("],
              LAMBDA c : c \in S)

\* acc op b for the operator character op
Operate(op, acc, b) ==
    CASE op = "*" -> Mul(acc, b)
      [] op = "/" -> TrueDiv(acc, b)
      [] op = "+" -> Add(acc, b)
      [] op = "-" -> Sub(acc, b)

\* (((acc ops[1] vs[1]) ops[2] vs[2]) ...)
RECURSIVE FoldLeft(_, _, _)
FoldLeft(vs, ops, acc) ==
    IF vs = <<>> \/ acc.k = "exc" THEN acc
    ELSE IF vs[1].k = "exc" THEN vs[1]
    ELSE FoldLeft(Tail(vs), Tail(ops), Operate(ops[1], acc, vs[1]))

\* ((1.0 * x1) op1 x2) ... over the literals of the product chain text
ProductFromLeft(text) ==
    FoldLeft([i \in DOMAIN Operands(text, {"*", "/"}) |->
                 super_float(Operands(text, {"*", "/"})[i])],
             <<"*">> \o OpsOf(text, {"*", "/"}),
             Num(1, 1, 0))

\* The signs of the terms of a sum: the leading one is + when not written
TermSigns(text) ==
    IF text[1] \in {"+", "-"} THEN OpsOf(text, {"+", "-"})
    ELSE <<"+">> \o OpsOf(text, {"+", "-"})

\* ((0.0 s t1) op1 t2) ... over the products t1, t2, ... of the sum text
SumFromLeft(text) ==
    FoldLeft([i \in DOMAIN Operands(text, {"+", "-"}) |->
                 ProductFromLeft(Operands(text, {"+", "-"})[i])],
             TermSigns(text),
             Num(0, 1, 0))

\* The chain text of three operands with its first two in parentheses
FirstTwoGrouped(text, S) ==
    LET xs == Operands(text, S)
        ops == OpsOf(text, S)
        lead == IF Len(ops) = 3 THEN <<ops[1]>> ELSE <<>>
        rest == IF Len(ops) = 3 THEN Tail(ops) ELSE ops
    IN  <<"(">> \o lead \o xs[1] \o <<rest[1]>> \o xs[2] \o <<")">>
        \o <<rest[2]>> \o xs[3]

IsProductChain == math_expr \in ProductChains

IsSumChain == math_expr \in SumChains

\* C19: a product chain is ((1.0 * x1) op1 x2) op2 x3 ..., so a/b*c is
\* (a/b)*c and a/b/c is (a/b)/c; a sum is ((0.0 s t1) op1 t2) op2 t3 ...,
\* where the leading sign s applies to the first term t1 alone, a product
\* included.
ChainsFoldFromLeft ==
    call = "evaluator" =>
        /\ result = SumFromLeft(math_expr)
        /\ (IsProductChain /\ Len(Operands(math_expr, {"*", "/"})) = 3) =>
              result = evaluator(<<>>, <<>>, FirstTwoGrouped(math_expr, {"*", "/"}),
                                 case_sensitive).result
        /\ (IsSumChain /\ Len(Operands(math_expr, {"+", "-"})) = 3) =>
              result = evaluator(<<>>, <<>>, FirstTwoGrouped(math_expr, {"+", "-"}),
                                 case_sensitive).result
        /\ math_expr = <<"-", "2", "*", "3", "+", "5">> => result = Num(-1, 1, 0)
        /\ math_expr = <<"5", "/", "2", "/", "5">> => result = Num(1, 2, 0)

\* Reached: "-2*3+5" has evaluated to -1, the sign taken by 2*3 alone.
LeadingSignOnFirstProduct ==
    /\ call = "evaluator"
    /\ math_expr = <<"-", "2", "*", "3", "+", "5">>
    /\ result = Num(-1, 1, 0)
    /\ result = SumFromLeft(math_expr)

(***************************************************************************)
(* Chains of up to MaxMixed numeric operands under any of the six          *)
(* operators, and the chains of three with two operands in parentheses     *)
(***************************************************************************)
MaxMixed == 3

MixedOperands == {<<"2">>, <<"3">>}

MixedOperators == {<<"^">>, <<"|", "|">>, <<"*">>, <<"/">>, <<"+">>, <<"-">>}

PlainMixed ==
    UNION {{Alternating(xs, ops) : xs \in [1..k -> MixedOperands],
                                   ops \in [1..(k - 1) -> MixedOperators]} : k \in 1..MaxMixed}

\* a op1 b op2 c with the parentheses around the first or the last two
Grouped(a, op1, b, op2, c, first) ==
    IF first THEN <<"(">> \o a \o op1 \o b \o <<")">> \o op2 \o c
    ELSE a \o op1 \o <<"(">> \o b \o op2 \o c \o <<")">>

GroupedMixed ==
    {Grouped(a, op1, b, op2, c, first) :
        a \in MixedOperands, op1 \in MixedOperators, b \in MixedOperands,
        op2 \in MixedOperators, c \in MixedOperands, first \in BOOLEAN}

MixedExprs == PlainMixed \cup GroupedMixed

InitMixed == InitWith(MixedExprs, {<<>>}, {<<>>})

SpecMixed == InitMixed /\ [][Next]_vars

\* How tightly the operator written with the character c binds
Binding(c) ==
    CASE c = "^" -> 4
      [] c = "|" -> 3
      [] c \in {"*", "/"} -> 2
      [] c \in {"+", "-"} -> 1

\* a || b || ... over the values vs
ParallelOf(vs) ==
    IF Len(vs) = 1 THEN vs[1]
    ELSE IF FirstExc(vs).k = "exc" THEN FirstExc(vs)
    ELSE IF \E i \in DOMAIN vs : IsZero(vs[i]) THEN NaN
    ELSE ReciprocalOfSum(vs)

\* The value of text read by splitting it at its loosest operators first:
\* a sum of products of parallels of powers of literals or parenthesized sums
RECURSIVE SumValue(_)

AtomValue(text) ==
    IF text[1] = "(" THEN SumValue(SubSeq(text, 2, Len(text) - 1))
    ELSE super_float(text)

PowerValue(text) ==
    RightNested([i \in DOMAIN Operands(text, {"^"}) |->
                    AtomValue(Operands(text, {"^"})[i])])

ParallelValue(text) ==
    ParallelOf([i \in DOMAIN Operands(text, {"|"}) |->
                   PowerValue(Operands(text, {"|"})[i])])

ProductValue(text) ==
    FoldLeft([i \in DOMAIN Operands(text, {"*", "/"}) |->
                 ParallelValue(Operands(text, {"*", "/"})[i])],
             <<"*">> \o OpsOf(text, {"*", "/"}),
             Num(1, 1, 0))

SumValue(text) ==
    FoldLeft([i \in DOMAIN Operands(text, {"+", "-"}) |->
                 ProductValue(Operands(text, {"+", "-"})[i])],
             TermSigns(text),
             Num(0, 1, 0))

\* The first character of the i-th operator of the plain chain text
OperatorAt(text, i) == OpsOf(text, {"^", "|", "*", "/", "+", "-"})[IF i = 1 THEN 1
    ELSE IF OpsOf(text, {"^", "|", "*", "/", "+", "-"})[1] = "|" THEN 3 ELSE 2]

\* The i-th operand of the plain chain text
OperandAt(text, i) == Operands(text, {"^", "|", "*", "/", "+", "-"})[i]

\* The i-th operator of the plain chain text, as written
WrittenOperator(text, i) ==
    IF OperatorAt(text, i) = "|" THEN <<"|", "|">> ELSE <<OperatorAt(text, i)>>

\* The plain chain of three with the operands of its tighter operator in
\* parentheses
TighterGrouped(text) ==
    Grouped(OperandAt(text, 1), WrittenOperator(text, 1), OperandAt(text, 2),
            WrittenOperator(text, 2), OperandAt(text, 3),
            Binding(OperatorAt(text, 1)) > Binding(OperatorAt(text, 2)))

\* A plain chain of three operands under two operators that bind differently
TwoBindings ==
    /\ math_expr \in PlainMixed
    /\ Len(Operands(math_expr, {"^", "|", "*", "/", "+", "-"})) = 3
    /\ Binding(OperatorAt(math_expr, 1)) # Binding(OperatorAt(math_expr, 2))

\* C18: ^ binds tighter than ||, || tighter than * and /, these tighter than
\* + and -, and a parenthesized sub-expression is worth what it is worth on
\* its own: a chain under two operators that bind differently evaluates to
\* the chain with the operands of the tighter one in parentheses, and every
\* expression to the sum of products of parallels of powers it reads as.
TighterOperatorFirst ==
    call = "evaluator" =>
        /\ result = SumValue(math_expr)
        /\ TwoBindings =>
              result = evaluator(<<>>, <<>>, TighterGrouped(math_expr),
                                 case_sensitive).result
        /\ math_expr = <<"2", "+", "3", "*", "2">> => result = Num(8, 1, 0)
        /\ math_expr = <<"(", "2", "+", "3", ")", "*", "2">> => result = Num(10, 1, 0)
        /\ math_expr = <<"2", "*", "2", "|", "|", "2">> => result = Num(2, 1, 0)
        /\ math_expr = <<"2", "|", "|", "2", "^", "2">> => result = Num(4, 3, 0)

\* Reached: "2+3*2" has evaluated to 8, what "2+(3*2)" evaluates to and not
\* the 10 of "(2+3)*2".
ProductBeforeSum ==
    /\ call = "evaluator"
    /\ math_expr = <<"2", "+", "3", "*", "2">>
    /\ TwoBindings
    /\ TighterGrouped(math_expr) = <<"2", "+", "(", "3", "*", "2", ")">>
    /\ result = Num(8, 1, 0)
    /\ result # evaluator(<<>>, <<>>, <<"(", "2", "+", "3", ")", "*", "2">>,
                          case_sensitive).result

(***************************************************************************)
(* Documents. A filter of main.py parses the string it is handed into an   *)
(* element tree, works on the tree and hands on its serialization. The     *)
(* elements of a tree are kept here in document order, each with the place *)
(* of its parent (0 for the root); an element taken out of the tree stays  *)
(* in the list with on = FALSE until the tree is serialized. The text of   *)
(* an element is kept by lines, a line by the name it assigns (k) and the  *)
(* value written for it (v); the tail of an element is the text between    *)
(* its end tag and the next tag, kept by words. Attribute values and names *)
(* given to questions are sequences of characters.                         *)
(***************************************************************************)
\* Python's None where a string may stand.
None == <<"None">>

\* F of the value of x, x being worked out once.
With(x, F(_)) == CHOOSE r \in {F(o) : o \in {x}} : TRUE

\* bool(s) of a string s or None
Truthy(s) == s # None /\ s # <<>>

Element(tag, parent, attrib, text, tail) ==
    [tag |-> tag, parent |-> parent, attrib |-> attrib, text |-> text, tail |-> tail,
     on |-> TRUE]

Line(k, v) == [k |-> k, v |-> v]

\* element.get(name)
get(el, name) == IF name \in Keys(el.attrib) THEN DictGet(el.attrib, name) ELSE None

\* element.getparent(), 0 for None
getparent(xml, i) == xml[i].parent

\* Whether element j lies below element i.
RECURSIVE Under(_, _, _)
Under(xml, j, i) ==
    /\ xml[j].parent # 0
    /\ xml[j].parent = i \/ Under(xml, xml[j].parent, i)

\* Whether element j is still part of the tree.
RECURSIVE Attached(_, _)
Attached(xml, j) ==
    /\ xml[j].on
    /\ xml[j].parent = 0 \/ Attached(xml, xml[j].parent)

\* element.findall(".//tag"): the elements below i with that tag, in
\* document order, as a list made before the caller's loop starts
findall(xml, i, tag) ==
    SelectSeq([j \in DOMAIN xml |-> j],
              LAMBDA j : xml[j].tag = tag /\ Attached(xml, j) /\ Under(xml, j, i))

\* bool(element) of lxml: whether the element has children
HasChildren(xml, i) == \E j \in DOMAIN xml : xml[j].on /\ xml[j].parent = i

\* A word of whitespace only.
IsSpace(word) == word \in {" ", "\n", "\t"}

\* etree.tostring(element) of a question: its start tag, its lines, its end
\* tag and, as with_tail is left at its default, its tail
tostring(xml, i) ==
    <<[p |-> "open", tag |-> xml[i].tag, attrib |-> xml[i].attrib]>>
    \o [n \in DOMAIN xml[i].text |-> [p |-> "line", line |-> xml[i].text[n]]]
    \o <<[p |-> "close", tag |-> xml[i].tag]>>
    \o [n \in DOMAIN xml[i].tail |-> [p |-> "text", word |-> xml[i].tail[n]]]

\* word in qstr
Mentions(qstr, word) ==
    \E n \in DOMAIN qstr :
        \/ qstr[n].p = "line" /\ qstr[n].line.k = word
        \/ qstr[n].p = "text" /\ qstr[n].word = word

\* qstr.replace("</question>", "%s\n</question>" % new_line)
RECURSIVE BeforeClose(_, _)
BeforeClose(qstr, new_line) ==
    IF qstr = <<>> THEN <<>>
    ELSE (IF qstr[1].p = "close" /\ qstr[1].tag = "question"
          THEN <<[p |-> "line", line |-> new_line], qstr[1]>>
          ELSE <<qstr[1]>>) \o BeforeClose(Tail(qstr), new_line)

\* re.sub("(<question [^>]+?>)", "\\1\n%s\n" % new_line, qstr): after every
\* start tag of a question that carries an attribute
RECURSIVE AfterOpen(_, _)
AfterOpen(qstr, new_line) ==
    IF qstr = <<>> THEN <<>>
    ELSE (IF qstr[1].p = "open" /\ qstr[1].tag = "question" /\ qstr[1].attrib # <<>>
          THEN <<qstr[1], [p |-> "line", line |-> new_line]>>
          ELSE <<qstr[1]>>) \o AfterOpen(Tail(qstr), new_line)

\* qstr.replace(replacement_key, new_line), the key being the one word of
\* the string replacement_key
ForKey(qstr, replacement_key, new_line) ==
    [n \in DOMAIN qstr |->
        IF qstr[n].p = "line" /\ qstr[n].line.k = replacement_key[1]
        THEN [p |-> "line", line |-> new_line] ELSE qstr[n]]

\* The place of the end tag that closes the start tag qstr opens with, 0 if none.
CloseAt(qstr) ==
    IF \E n \in DOMAIN qstr : qstr[n].p = "close"
    THEN CHOOSE n \in DOMAIN qstr :
            qstr[n].p = "close" /\ \A m \in 1..(n - 1) : qstr[m].p # "close"
    ELSE 0

\* etree.fromstring(new_qstr): the element the string holds; anything but
\* whitespace after its end tag is an XMLSyntaxError, and whitespace there is
\* not part of the element
fromstring(new_qstr, parent) ==
    LET end == CloseAt(new_qstr)
    IN  IF \/ end = 0
           \/ new_qstr[1].p # "open"
           \/ \E n \in (end + 1)..Len(new_qstr) :
                 ~(new_qstr[n].p = "text" /\ IsSpace(new_qstr[n].word))
        THEN [raised |-> TRUE, el |-> Element("", 0, <<>>, <<>>, <<>>)]
        ELSE [raised |-> FALSE,
              el |-> Element(new_qstr[1].tag, parent, new_qstr[1].attrib,
                             [n \in 1..(end - 2) |-> new_qstr[n + 1].line], <<>>)]

\* latex2cs.add_to_question(question, new_line, replacement_key, at_front) on
\* the tree xml: the tree afterwards, what the call returned, and whether it
\* raised instead. The element parsed back takes the place of the question.
Added(xml, question, qstr, new_qstr) ==
    IF new_qstr = qstr THEN [xml |-> xml, returned |-> FALSE, raised |-> FALSE]
    ELSE IF fromstring(new_qstr, xml[question].parent).raised
    THEN [xml |-> xml, returned |-> FALSE, raised |-> TRUE]
    ELSE [xml |-> [xml EXCEPT ![question] = fromstring(new_qstr, xml[question].parent).el],
          returned |-> TRUE, raised |-> FALSE]

add_to_question(xml, question, new_line, replacement_key, at_front) ==
    Added(xml, question, tostring(xml, question),
          IF Truthy(replacement_key)
          THEN ForKey(tostring(xml, question), replacement_key, new_line)
          ELSE IF at_front THEN AfterOpen(tostring(xml, question), new_line)
          ELSE BeforeClose(tostring(xml, question), new_line))

\* The place element j has once the elements taken out are left out.
Place(xml, j) == Cardinality({m \in 1..j : Attached(xml, m)})

\* etree.tostring(xml) of a whole tree, and str2xml of it by the next filter:
\* the elements still in the tree
Document(xml) ==
    LET kept == SelectSeq([j \in DOMAIN xml |-> j], LAMBDA j : Attached(xml, j))
    IN  [n \in DOMAIN kept |->
            [xml[kept[n]] EXCEPT
                !.parent = IF xml[kept[n]].parent = 0 THEN 0
                           ELSE Place(xml, xml[kept[n]].parent)]]

\* str.strip()
RECURSIVE strip(_)
strip(s) ==
    IF s = <<>> THEN s
    ELSE IF s[1] \in StripWhite THEN strip(Tail(s))
    ELSE IF s[Len(s)] \in StripWhite THEN strip(SubSeq(s, 1, Len(s) - 1))
    ELSE s

\* int(s) of a string: whitespace around it is ignored, a sign may lead, and
\* single underscores may stand between the digits; ValueError otherwise
int(s) ==
    LET t == strip(s)
        signed == t # <<>> /\ t[1] \in {"+", "-"}
        body == IF signed THEN Tail(t) ELSE t
        digits == SelectSeq(body, LAMBDA c : c # "_")
    IN  IF /\ body # <<>>
           /\ \A n \in DOMAIN body : body[n] \in nums \cup {"_"}
           /\ body[1] # "_" /\ body[Len(body)] # "_"
           /\ \A n \in 1..(Len(body) - 1) : ~(body[n] = "_" /\ body[n + 1] = "_")
           /\ DigitsVal(digits) >= 0
        THEN [raised |-> FALSE,
              n |-> IF signed /\ t[1] = "-" THEN 0 - DigitsVal(digits)
                    ELSE DigitsVal(digits)]
        ELSE [raised |-> TRUE, n |-> 0]

\* "%s" % n and "%d" % n of an integer
RECURSIVE Decimal(_)
Decimal(n) ==
    IF n < 0 THEN <<"-">> \o Decimal(0 - n)
    ELSE IF n < 10 THEN <<DigitSeq[n + 1]>>
    ELSE Decimal(n \div 10) \o <<DigitSeq[(n % 10) + 1]>>

(***************************************************************************)
(* The converter: a latex2cs instance and its filters                      *)
(***************************************************************************)
\* The default of the default_npoints argument of latex2cs.
DefaultNpoints == 1

\* self.filters as __init__ builds it: the filters of the class by name, in
\* the order of the list, and after them the extra filters of the caller
filters(extra_filters) ==
    <<"filter_fix_math", "filter_fix_math_eqnarray", "fix_attrib_string",
      "filter_fix_section_headers", "process_dndtex", "filter_fix_solutions",
      "filter_remmove_edxinclude", "filter_fix_hint_definitions",
      "filter_fix_inline_prompts", "filter_fix_question_names",
      "filter_fix_nsubmits", "filter_fix_ref", "process_edxxml",
      "process_includepy", "process_showhide", "pp_xml", "filter_fix_question",
      "add_explanations">> \o extra_filters

\* latex2cs(fn, extra_filters=extra_filters, default_npoints=default_npoints):
\* the fields this model follows
latex2cs(extra_filters, default_npoints) ==
    [default_npoints |-> default_npoints, explanations |-> <<>>, question_names |-> <<>>,
     filters |-> filters(extra_filters)]

\* How many parents filter_fix_nsubmits climbs from a question.
ClimbLimit == 10

\* The while loop of filter_fix_nsubmits: from parent upwards to the first
\* problem, for as long as the element is true and cnt below the limit.
RECURSIVE Climbed(_, _, _)
Climbed(xml, parent, cnt) ==
    IF parent # 0 /\ HasChildren(xml, parent) /\ xml[parent].tag # "problem"
       /\ cnt < ClimbLimit
    THEN Climbed(xml, getparent(xml, parent), cnt + 1)
    ELSE parent

\* The body of the loop of filter_fix_nsubmits for one question, problem
\* being where the climb ended.
NsubmitsFrom(xml, question, problem) ==
    IF problem = 0 \/ ~HasChildren(xml, problem)
    THEN [xml |-> xml, raised |-> FALSE]
    ELSE IF ~Truthy(get(xml[problem], "attempts")) THEN [xml |-> xml, raised |-> FALSE]
    ELSE IF int(get(xml[problem], "attempts")).raised THEN [xml |-> xml, raised |-> FALSE]
    ELSE With(add_to_question(xml, question,
                      Line("csq_nsubmits", Decimal(int(get(xml[problem], "attempts")).n)),
                      None, FALSE),
              LAMBDA added : [xml |-> added.xml, raised |-> added.raised])

RECURSIVE NsubmitsLoop(_, _, _)
NsubmitsLoop(xml, questions, n) ==
    IF n > Len(questions) THEN [xml |-> xml, raised |-> FALSE]
    ELSE IF Mentions(tostring(xml, questions[n]), "csq_nsubmits")
    THEN NsubmitsLoop(xml, questions, n + 1)
    ELSE With(NsubmitsFrom(xml, questions[n],
                           Climbed(xml, getparent(xml, questions[n]), 0)),
              LAMBDA s : IF s.raised THEN [xml |-> xml, raised |-> TRUE]
                         ELSE NsubmitsLoop(s.xml, questions, n + 1))

\* What a filter hands back: the string of the tree, or the exception.
Filtered(o) ==
    [xhtml |-> IF o.raised THEN None ELSE Document(o.xml), raised |-> o.raised]

\* latex2cs.filter_fix_nsubmits(xhtml)
filter_fix_nsubmits(doc) == Filtered(NsubmitsLoop(doc, findall(doc, 1, "question"), 1))

\* The calculator is not called.
NoCalls ==
    /\ math_expr = <<>>
    /\ variables = <<>>
    /\ functions = <<>>
    /\ case_sensitive = FALSE
    /\ call = "none"
    /\ result = Val("none", 0, 1, 0, "", "", <<>>)
    /\ steps = <<>>
    /\ tree = NoTree
    /\ variables_used = {}
    /\ functions_used = {}
    /\ all_variables = NoEnv
    /\ all_functions = NoEnv
    /\ default_variables = DEFAULT_VARIABLES
    /\ default_functions = DEFAULT_FUNCTIONS
    /\ suffixes = SUFFIXES
    /\ noted = NotNoting

calcvars == <<math_expr, variables, functions, case_sensitive, call, result, steps,
              variables_used, functions_used, tree, all_variables, all_functions,
              default_variables, default_functions, suffixes, noted>>

\* How many calls of a filter a run of the model follows.
MaxCalls == 2

\* Converter self has called the filter name on the document it holds and
\* got o: the string returned is what it holds now, and an exception leaves
\* it with what it had.
Handed(self, name, o) ==
    /\ Len(history) < MaxCalls
    /\ xhtml' = IF o.raised THEN xhtml ELSE o.xhtml
    /\ history' = Append(history, [call |-> name, self |-> self, given |-> xhtml,
                                   returned |-> o.xhtml, raised |-> o.raised])

FilterFixNsubmits ==
    \E self \in DOMAIN converters : \E o \in {filter_fix_nsubmits(xhtml)} :
        /\ Handed(self, "filter_fix_nsubmits", o)
        /\ UNCHANGED <<converters, DEFAULT_NPOINTS>>
        /\ UNCHANGED calcvars

(***************************************************************************)
(* Documents of questions at some depth: under the root, up to             *)
(* MaxQuestions chains, each a question below some wrappers, the chain     *)
(* headed by a problem or not.                                             *)
(***************************************************************************)
MaxQuestions == 2

\* The elements of a chain whose first element takes place first: head
\* (a problem, or nothing), then depth wrappers, then the question.
Chain(first, head, depth, question) ==
    LET tags == head \o [n \in 1..depth |-> Element("span", 0, <<>>, <<>>, <<>>)]
                \o <<question>>
    IN  [n \in DOMAIN tags |->
            [tags[n] EXCEPT !.parent = IF n = 1 THEN 1 ELSE first + n - 2]]

RECURSIVE Chains(_, _)
Chains(first, chains) ==
    IF chains = <<>> THEN <<>>
    ELSE Chain(first, chains[1].head, chains[1].depth, chains[1].question)
         \o Chains(first + Len(chains[1].head) + chains[1].depth + 1, Tail(chains))

\* The document with the given chains below its root.
Below(chains) == <<Element("html", 0, <<>>, <<>>, <<>>)>> \o Chains(2, chains)

AttemptsValues ==
    {<<"1", "0">>, <<" ", "7", "\n">>, <<"+", "3">>, <<"1", "_", "2">>, <<"0", "5">>,
     <<"x">>, <<"1", ".", "5">>, <<>>}

ProblemHeads ==
    {<<Element("problem", 0, <<>>, <<>>, <<>>)>>}
    \cup {<<Element("problem", 0, << <<"attempts", a>> >>, <<>>, <<>>)>> : a \in AttemptsValues}

Tails == {<<>>, <<"\n">>, <<"volts">>}

BoxLines ==
    {<<Line("csq_soln", <<"4">>)>>,
     <<Line("csq_soln", <<"4">>), Line("csq_nsubmits", <<"2">>)>>}

NsubmitsQuestions ==
    {Element("question", 0, << <<"pythonic", <<"1">>>> >>, t, w) : t \in BoxLines, w \in Tails}

NsubmitsChains ==
    [head : ProblemHeads \cup {<<>>}, depth : {0, 1, ClimbLimit, ClimbLimit + 1},
     question : NsubmitsQuestions]

\* The chains documents of several chains are made of.
FewChains ==
    {c \in NsubmitsChains :
        /\ c.depth \in {0, ClimbLimit + 1}
        /\ c.head \in {<<>>, <<Element("problem", 0, << <<"attempts", <<"1", "0">>>> >>,
                                       <<>>, <<>>)>>}
        /\ c.question.tail = <<>>}

NsubmitsDocuments ==
    {Below(<<c>>) : c \in NsubmitsChains}
    \cup {Below(cs) : cs \in UNION {[1..k -> FewChains] : k \in 2..MaxQuestions}}

InitNsubmits ==
    /\ NoCalls
    /\ xhtml \in NsubmitsDocuments
    /\ converters = <<latex2cs(<<>>, DefaultNpoints)>>
    /\ DEFAULT_NPOINTS = 0
    /\ history = <<>>

NextNsubmits == FilterFixNsubmits

SpecNsubmits == InitNsubmits /\ [][NextNsubmits]_vars

\* The problem a question lies in: its nearest ancestor that is a problem,
\* 0 if it has none.
RECURSIVE Enclosing(_, _)
Enclosing(xml, i) ==
    IF xml[i].parent = 0 THEN 0
    ELSE IF xml[xml[i].parent].tag = "problem" THEN xml[i].parent
    ELSE Enclosing(xml, xml[i].parent)

\* Whether the question's own text holds a line for name.
HasLine(el, name) == \E n \in DOMAIN el.text : el.text[n].k = name

\* Whether question i of xml is to inherit its problem's attempts.
Inherits(xml, i) ==
    /\ ~HasLine(xml[i], "csq_nsubmits")
    /\ Enclosing(xml, i) # 0
    /\ Truthy(get(xml[Enclosing(xml, i)], "attempts"))
    /\ ~int(get(xml[Enclosing(xml, i)], "attempts")).raised

\* The call the history ends with.
LastCall == history[Len(history)]

\* C13: after filter_fix_nsubmits, every question that held no csq_nsubmits
\* and lies in a problem whose attempts parses as the integer N has the line
\* 'csq_nsubmits = N' after the lines it had, and every other question is as
\* it was.
NsubmitsInherited ==
    (history # <<>> /\ LastCall.call = "filter_fix_nsubmits") =>
        /\ ~LastCall.raised
        /\ Len(LastCall.returned) = Len(LastCall.given)
        /\ \A i \in DOMAIN LastCall.given :
              LastCall.given[i].tag = "question" =>
                 IF Inherits(LastCall.given, i)
                 THEN LastCall.returned[i].text =
                         Append(LastCall.given[i].text,
                                Line("csq_nsubmits",
                                     Decimal(int(get(LastCall.given[Enclosing(LastCall.given, i)],
                                                     "attempts")).n)))
                 ELSE LastCall.returned[i] = LastCall.given[i]

(***************************************************************************)
(* filter_fix_solutions and add_explanations                               *)
(***************************************************************************)
\* self.pp_xml(solution): the solution element as a string of its own. The
\* solutions of this model have no <b>Solution:</b> heading and nothing but
\* whitespace after their end tag.
pp_xml(xml, solution) ==
    SelectSeq(tostring(xml, solution), LAMBDA piece : piece.p # "text")

\* hashlib.sha224(qtext).hexdigest()[:20]: a key that tells texts apart
sha224(qtext) == <<"sha224", qtext>>

\* dict[key] = value on one of the dictionaries a converter keeps
Stored(self, key, value) == [self EXCEPT !.explanations = DictSet(@, key, value)]

\* The while loop of filter_fix_solutions: from parent upwards until a
\* question or a problem lies below, at most SolutionClimb times; 0 when it
\* leaves the tree, where parent.find raises AttributeError.
SolutionClimb == 5

RECURSIVE Nearest(_, _, _)
Nearest(xml, parent, cnt) ==
    IF parent = 0 THEN 0
    ELSE IF findall(xml, parent, "question") = <<>> /\ cnt < SolutionClimb
            /\ findall(xml, parent, "problem") = <<>>
    THEN Nearest(xml, getparent(xml, parent), cnt + 1)
    ELSE parent

\* element.set(name, value)
set(el, name, value) == [el EXCEPT !.attrib = DictSet(@, name, value)]

\* The loop over the questions below parent: every question that has no
\* has_solution attribute yet is marked, the explanation stored under its
\* key, and the key written into the question. s is the tree, the converter
\* and whether an exception was raised.
RECURSIVE GivenTo(_, _, _, _)
GivenTo(s, questions, n, qtext) ==
    IF s.raised \/ n > Len(questions) THEN s
    ELSE IF Truthy(get(s.xml[questions[n]], "has_solution"))
    THEN GivenTo(s, questions, n + 1, qtext)
    ELSE With(add_to_question(
                 [s.xml EXCEPT ![questions[n]] = set(@, "has_solution", <<"1">>)],
                 questions[n], Line("[key]", sha224(qtext)), None, FALSE),
              LAMBDA added :
                 GivenTo([xml |-> added.xml,
                          self |-> Stored(s.self, sha224(qtext), qtext),
                          raised |-> added.raised],
                         questions, n + 1, qtext))

\* The body of the loop over the solutions of a problem, for one solution.
Moved(s, solution, qtext, removed) ==
    With(Nearest(removed, getparent(s.xml, solution), 0),
         LAMBDA parent :
            IF parent = 0 THEN [s EXCEPT !.raised = TRUE]
            ELSE GivenTo([s EXCEPT !.xml = removed],
                         findall(removed, parent, "question"), 1, qtext))

RECURSIVE SolutionsLoop(_, _, _)
SolutionsLoop(s, solutions, n) ==
    IF s.raised \/ n > Len(solutions) THEN s
    ELSE With(Moved(s, solutions[n],
                    Line("csq_explanation", pp_xml(s.xml, solutions[n])),
                    [s.xml EXCEPT ![solutions[n]].on = FALSE]),
              LAMBDA moved : SolutionsLoop(moved, solutions, n + 1))

RECURSIVE ProblemsLoop(_, _, _)
ProblemsLoop(s, problems, n) ==
    IF s.raised \/ n > Len(problems) THEN s
    ELSE With(SolutionsLoop(s, findall(s.xml, problems[n], "solution"), 1),
              LAMBDA moved : ProblemsLoop(moved, problems, n + 1))

\* latex2cs.filter_fix_solutions(xhtml) on converter self: what it hands
\* back, and the converter afterwards
filter_fix_solutions(self, doc) ==
    ProblemsLoop([xml |-> doc, self |-> self, raised |-> FALSE],
                 findall(doc, 1, "problem"), 1)

\* xmlstr.replace("[key:%s]" % key, text) for every stored explanation
RECURSIVE Explained(_, _, _)
Explained(doc, explanations, n) ==
    IF n > Len(explanations) THEN doc
    ELSE Explained(
            [i \in DOMAIN doc |->
                [doc[i] EXCEPT !.text =
                    [m \in DOMAIN doc[i].text |->
                        IF doc[i].text[m].k = "[key]"
                           /\ doc[i].text[m].v = explanations[n][1]
                        THEN explanations[n][2] ELSE doc[i].text[m]]]],
            explanations, n + 1)

\* latex2cs.add_explanations(xmlstr)
add_explanations(self, doc) ==
    [xhtml |-> Explained(doc, self.explanations, 1), raised |-> FALSE]

FilterFixSolutions ==
    \E self \in DOMAIN converters :
        \E o \in {filter_fix_solutions(converters[self], xhtml)} :
            /\ Handed(self, "filter_fix_solutions", Filtered(o))
            /\ converters' = [converters EXCEPT ![self] = o.self]
            /\ UNCHANGED DEFAULT_NPOINTS
            /\ UNCHANGED calcvars

AddExplanations ==
    \E self \in DOMAIN converters :
        \E o \in {add_explanations(converters[self], xhtml)} :
        /\ Handed(self, "add_explanations", o)
        /\ UNCHANGED <<converters, DEFAULT_NPOINTS>>
        /\ UNCHANGED calcvars

(***************************************************************************)
(* Documents of problems with solutions: up to MaxProblems problems, each  *)
(* of up to MaxQuestions questions, a question followed by its solution or *)
(* by none; the questions and solutions are the children of the problem,   *)
(* or each question stands with its solution in an element of their own,   *)
(* or each solution stands alone in a paragraph.                           *)
(***************************************************************************)
MaxProblems == 2

Layouts == {"flat", "paired", "alone"}

\* The text written for question number n.
Numbered(n) == <<"n", "o", ".">> \o Decimal(n)

\* The elements of item number n of a problem at place problem, the first
\* of them taking place first.
Item(layout, problem, first, n, solved) ==
    LET question == Element("question", 0, << <<"pythonic", <<"1">>>> >>,
                            <<Line("csq_soln", Numbered(n))>>, <<"\n">>)
        solution == Element("solution", 0, <<>>, <<Line("span", Numbered(n))>>, <<"\n">>)
        inner == Element(IF layout = "paired" THEN "div" ELSE "p", problem, <<>>, <<>>, <<>>)
    IN  IF layout = "paired"
        THEN <<inner, [question EXCEPT !.parent = first]>>
             \o (IF solved THEN <<[solution EXCEPT !.parent = first]>> ELSE <<>>)
        ELSE <<[question EXCEPT !.parent = problem]>>
             \o (IF ~solved THEN <<>>
                 ELSE IF layout = "alone"
                 THEN <<inner, [solution EXCEPT !.parent = first + 1]>>
                 ELSE <<[solution EXCEPT !.parent = problem]>>)

RECURSIVE Items(_, _, _, _, _)
Items(layout, problem, first, n, solved) ==
    IF solved = <<>> THEN <<>>
    ELSE Item(layout, problem, first, n, solved[1])
         \o Items(layout, problem,
                  first + Len(Item(layout, problem, first, n, solved[1])), n + 1,
                  Tail(solved))

\* A problem at place problem, its questions numbered from n.
Problem(layout, attrib, problem, n, solved) ==
    <<Element("problem", 1, attrib, <<>>, <<>>)>>
    \o Items(layout, problem, problem + 1, n, solved)

RECURSIVE Problems(_, _, _)
Problems(ps, problem, n) ==
    IF ps = <<>> THEN <<>>
    ELSE Problem(ps[1].layout, ps[1].attrib, problem, n, ps[1].solved)
         \o Problems(Tail(ps),
                     problem + Len(Problem(ps[1].layout, ps[1].attrib, problem, n,
                                           ps[1].solved)),
                     n + Len(ps[1].solved))

\* The document with the given problems below its root.
Holding(ps) == <<Element("html", 0, <<>>, <<>>, <<>>)>> \o Problems(ps, 2, 1)

SolvedProblems ==
    [layout : Layouts, attrib : {<<>>}, solved : SeqsUpTo(BOOLEAN, MaxQuestions)]

SolutionDocuments ==
    {Holding(<<p>>) : p \in SolvedProblems}
    \cup {Holding(ps) :
            ps \in UNION {[1..k -> {p \in SolvedProblems : Len(p.solved) = 1}] :
                             k \in 2..MaxProblems}}

InitSolutions ==
    /\ NoCalls
    /\ xhtml \in SolutionDocuments
    /\ converters = <<latex2cs(<<>>, DefaultNpoints)>>
    /\ DEFAULT_NPOINTS = 0
    /\ history = <<>>

NextSolutions == FilterFixSolutions \/ AddExplanations

SpecSolutions == InitSolutions /\ [][NextSolutions]_vars

\* The solution written for question i: the solution that follows it before
\* the next question of its problem, 0 if there is none.
OwnSolution(xml, i) ==
    LET after == {j \in DOMAIN xml :
                     /\ j > i
                     /\ xml[j].tag = "solution"
                     /\ Enclosing(xml, j) = Enclosing(xml, i)
                     /\ \A m \in (i + 1)..(j - 1) : xml[m].tag # "question"}
    IN  IF after = {} THEN 0 ELSE CHOOSE j \in after : \A m \in after : j <= m

\* The explanations question el holds, in order.
ExplanationsOf(el) ==
    [n \in DOMAIN SelectSeq(el.text, LAMBDA line : line.k = "csq_explanation") |->
        SelectSeq(el.text, LAMBDA line : line.k = "csq_explanation")[n].v]

\* Whether every question of the document has a solution of its own.
EachSolved(xml) ==
    \A i \in DOMAIN xml : xml[i].tag = "question" => OwnSolution(xml, i) # 0

\* Whether some problem of the document holds several questions.
SeveralQuestions(xml) ==
    \E i, j \in DOMAIN xml :
        /\ i < j
        /\ xml[i].tag = "question" /\ xml[j].tag = "question"
        /\ Enclosing(xml, i) = Enclosing(xml, j)

\* The document has gone through filter_fix_solutions and then through
\* add_explanations.
SolutionsMoved ==
    /\ Len(history) = 2
    /\ history[1].call = "filter_fix_solutions"
    /\ history[2].call = "add_explanations"

\* C14: once a document whose questions each have a solution of their own
\* has gone through filter_fix_solutions and add_explanations, every question
\* holds the text of its own solution as its one csq_explanation and no
\* solution element is left: each solution is in the output exactly once, none
\* is dropped, and no question has the solution of another.
EachSolutionInItsQuestion ==
    (SolutionsMoved /\ EachSolved(history[1].given)) =>
        /\ ~history[1].raised /\ ~history[2].raised
        /\ findall(xhtml, 1, "solution") = <<>>
        /\ Len(findall(xhtml, 1, "question")) = Len(findall(history[1].given, 1, "question"))
        /\ \A n \in DOMAIN findall(xhtml, 1, "question") :
              ExplanationsOf(xhtml[findall(xhtml, 1, "question")[n]]) =
                 <<pp_xml(history[1].given,
                          OwnSolution(history[1].given,
                                      findall(history[1].given, 1, "question")[n]))>>

(***************************************************************************)
(* filter_fix_question_names                                               *)
(***************************************************************************)
\* valid_qname.match(name) for re.compile(r"^[A-Za-z][_A-Za-z0-9]*$"): as the
\* pattern is matched from the start, and $ matches at the end of the string
\* and also before a newline the string ends with
valid_qname(name) ==
    LET body == IF name # <<>> /\ name[Len(name)] = "\n"
                THEN SubSeq(name, 1, Len(name) - 1) ELSE name
    IN  /\ body # <<>>
        /\ body[1] \in alphas
        /\ \A n \in 2..Len(body) : body[n] \in alphanums \cup {"_"}

\* name.replace("-", "_")
Underscored(name) == [n \in DOMAIN name |-> IF name[n] = "-" THEN "_" ELSE name[n]]

\* latex2cs.make_valid_question_name(name)
make_valid_question_name(name) ==
    IF valid_qname(name) THEN [raised |-> FALSE, name |-> name]
    ELSE IF valid_qname(Underscored(name))
    THEN [raised |-> FALSE, name |-> Underscored(name)]
    ELSE [raised |-> TRUE, name |-> None]

\* "%02d" % qcnt
TwoDigits(qcnt) == IF qcnt < 10 THEN <<"0">> \o Decimal(qcnt) ELSE Decimal(qcnt)

\* while csq_name in self.question_names: csq_name += "x"
RECURSIVE Unused(_, _)
Unused(csq_name, question_names) ==
    IF csq_name \in Range(question_names)
    THEN Unused(csq_name \o <<"x">>, question_names)
    ELSE csq_name

\* "'%s'" % csq_name
Quoted(csq_name) == <<"'">> \o csq_name \o <<"'">>

\* The loop over the questions of a problem: a question that mentions no
\* csq_name is counted, given the first unused name, and the name noted.
RECURSIVE NamedFrom(_, _, _, _, _)
NamedFrom(s, url_name, questions, n, qcnt) ==
    IF s.raised \/ n > Len(questions) THEN s
    ELSE IF Mentions(tostring(s.xml, questions[n]), "csq_name")
    THEN NamedFrom(s, url_name, questions, n + 1, qcnt)
    ELSE With(Unused(url_name \o <<"_">> \o TwoDigits(qcnt + 1), s.self.question_names),
              LAMBDA csq_name :
                 With(add_to_question(s.xml, questions[n],
                                      Line("csq_name", Quoted(csq_name)), None, FALSE),
                      LAMBDA added :
                         NamedFrom([xml |-> added.xml,
                                    self |-> [s.self EXCEPT !.question_names =
                                                 Append(@, csq_name)],
                                    raised |-> added.raised],
                                   url_name, questions, n + 1, qcnt + 1)))

RECURSIVE NamesLoop(_, _, _)
NamesLoop(s, problems, n) ==
    IF s.raised \/ n > Len(problems) THEN s
    ELSE IF ~Truthy(get(s.xml[problems[n]], "url_name"))
    THEN NamesLoop(s, problems, n + 1)
    ELSE With(make_valid_question_name(get(s.xml[problems[n]], "url_name")),
              LAMBDA url_name :
                 IF url_name.raised THEN [s EXCEPT !.raised = TRUE]
                 ELSE With(NamedFrom(s, url_name.name,
                                     findall(s.xml, problems[n], "question"), 1, 0),
                           LAMBDA named : NamesLoop(named, problems, n + 1)))

\* latex2cs.filter_fix_question_names(xhtml) on converter self: what it
\* hands back, and the converter afterwards
filter_fix_question_names(self, doc) ==
    NamesLoop([xml |-> doc, self |-> self, raised |-> FALSE], findall(doc, 1, "problem"), 1)

(***************************************************************************)
(* Documents of named problems: up to MaxProblems problems with a url_name *)
(* or none, each of up to MaxQuestions questions.                          *)
(***************************************************************************)
UrlNames ==
    {<<"p">>, <<"p", "-", "1">>, <<"p", "_", "1">>, <<"1", "p">>, <<"p", ".", "1">>,
     <<"p", "\n">>, <<>>}

Named(url_name) == << <<"url_name", url_name>> >>

NamedProblems ==
    [layout : {"flat"}, attrib : {<<>>} \cup {Named(u) : u \in UrlNames},
     solved : {[n \in 1..k |-> FALSE] : k \in 1..MaxQuestions}]

NameDocuments ==
    {Holding(<<p>>) : p \in NamedProblems}
    \cup {Holding(ps) :
            ps \in UNION {[1..k -> {p \in NamedProblems :
                                       /\ Len(p.solved) = 1
                                       /\ p.attrib \in {Named(<<"p">>), Named(<<"p", "-", "1">>),
                                                        Named(<<"p", "_", "1">>)}}] :
                             k \in 2..MaxProblems}}

\* A converter is handed a document of named problems, or the document it
\* handed back, and calls filter_fix_question_names on it.
FilterFixQuestionNames ==
    \E self \in DOMAIN converters : \E doc \in NameDocuments \cup {xhtml} :
        \E o \in {IF Len(history) < MaxCalls
                  THEN filter_fix_question_names(converters[self], doc)
                  ELSE [xml |-> doc, self |-> converters[self], raised |-> TRUE]} :
            /\ Len(history) < MaxCalls
            /\ xhtml' = IF o.raised THEN xhtml ELSE Document(o.xml)
            /\ history' =
                  Append(history,
                         [call |-> "filter_fix_question_names", self |-> self,
                          given |-> doc, returned |-> Filtered(o).xhtml,
                          raised |-> o.raised])
            /\ converters' = [converters EXCEPT ![self] = o.self]
            /\ UNCHANGED DEFAULT_NPOINTS
            /\ UNCHANGED calcvars

InitNames ==
    /\ NoCalls
    /\ xhtml \in NameDocuments
    /\ converters = <<latex2cs(<<>>, DefaultNpoints)>>
    /\ DEFAULT_NPOINTS = 0
    /\ history = <<>>

NextNames == FilterFixQuestionNames

SpecNames == InitNames /\ [][NextNames]_vars

\* The names a call that returned has given out: the csq_name of every
\* question that held none when the call was made.
RECURSIVE NamesGiven(_, _)
NamesGiven(h, i) ==
    IF h.raised \/ i > Len(h.given) THEN <<>>
    ELSE (IF h.given[i].tag = "question" /\ ~HasLine(h.given[i], "csq_name")
             /\ HasLine(h.returned[i], "csq_name")
          THEN <<SelectSeq(h.returned[i].text, LAMBDA line : line.k = "csq_name")[1].v>>
          ELSE <<>>) \o NamesGiven(h, i + 1)

\* The names given out by the calls so far, in order, without their quotes.
RECURSIVE Assigned(_)
Assigned(calls) ==
    IF calls = <<>> THEN <<>>
    ELSE Assigned(SubSeq(calls, 1, Len(calls) - 1))
         \o [n \in DOMAIN NamesGiven(calls[Len(calls)], 1) |->
                SubSeq(NamesGiven(calls[Len(calls)], 1)[n], 2,
                       Len(NamesGiven(calls[Len(calls)], 1)[n]) - 1)]

\* How often x occurs in seq.
Count(seq, x) == Cardinality({n \in DOMAIN seq : seq[n] = x})

\* Whether the document holds a url_name that replacing "-" by "_" does not
\* make a letter followed by letters, digits and underscores.
HoldsHopelessName(xml) ==
    \E i \in DOMAIN xml :
        /\ xml[i].tag = "problem"
        /\ Truthy(get(xml[i], "url_name"))
        /\ LET name == Underscored(get(xml[i], "url_name"))
           IN  ~(name[1] \in alphas /\ \A n \in 2..Len(name) : name[n] \in alphanums \cup {"_"})

\* C17: the names filter_fix_question_names has given out on one instance are
\* pairwise distinct, question_names holds each exactly once, each matches
\* ^[A-Za-z][_A-Za-z0-9]*$, and a call on a document with a url_name that "-"
\* to "_" does not make valid raised.
NamesDistinctAndValid ==
    /\ \A n \in DOMAIN Assigned(history) :
          /\ Count(Assigned(history), Assigned(history)[n]) = 1
          /\ Count(converters[1].question_names, Assigned(history)[n]) = 1
          /\ valid_qname(Assigned(history)[n])
    /\ \A n \in DOMAIN history :
          HoldsHopelessName(history[n].given) => history[n].raised

(***************************************************************************)
(* filter_fix_hint_definitions                                             *)
(***************************************************************************)
\* The line make_pythonic writes where the definitions of the hints belong.
HintKey == "# ===HINT-DEFINITION==="

\* script.text: the code the script holds, one line of it in this model; no
\* line stands for the None of an empty script.
script_text(el) == el.text

\* The loop over the questions below parent: every question that has no
\* has_script attribute yet is marked and given the code, in place of the
\* marker if it holds one and else after its start tag. With no code
\* (script.text is None) str.replace raises TypeError.
RECURSIVE ScriptGivenTo(_, _, _, _)
ScriptGivenTo(s, questions, n, script_code) ==
    IF s.raised \/ n > Len(questions) THEN s
    ELSE IF Truthy(get(s.xml[questions[n]], "has_script"))
    THEN ScriptGivenTo(s, questions, n + 1, script_code)
    ELSE IF script_code = <<>> THEN [s EXCEPT !.raised = TRUE]
    ELSE With(add_to_question(
                 [s.xml EXCEPT ![questions[n]] = set(@, "has_script", <<"1">>)],
                 questions[n], script_code[1], <<HintKey>>, FALSE),
              LAMBDA replaced :
                 IF replaced.raised \/ replaced.returned
                 THEN ScriptGivenTo([xml |-> replaced.xml, raised |-> replaced.raised],
                                    questions, n + 1, script_code)
                 ELSE With(add_to_question(replaced.xml, questions[n], script_code[1],
                                           None, TRUE),
                           LAMBDA fronted :
                              ScriptGivenTo([xml |-> fronted.xml,
                                             raised |-> fronted.raised],
                                            questions, n + 1, script_code)))

\* The body of the loop over the scripts of a problem, for one script: the
\* script is taken out, and the climb from its parent is the one of
\* filter_fix_solutions.
ScriptMoved(s, script, script_code, removed) ==
    With(Nearest(removed, getparent(s.xml, script), 0),
         LAMBDA parent :
            IF parent = 0 THEN [s EXCEPT !.raised = TRUE]
            ELSE ScriptGivenTo([s EXCEPT !.xml = removed],
                               findall(removed, parent, "question"), 1, script_code))

RECURSIVE ScriptsLoop(_, _, _)
ScriptsLoop(s, scripts, n) ==
    IF s.raised \/ n > Len(scripts) THEN s
    ELSE With(ScriptMoved(s, scripts[n], script_text(s.xml[scripts[n]]),
                          [s.xml EXCEPT ![scripts[n]].on = FALSE]),
              LAMBDA moved : ScriptsLoop(moved, scripts, n + 1))

RECURSIVE ScriptProblemsLoop(_, _, _)
ScriptProblemsLoop(s, problems, n) ==
    IF s.raised \/ n > Len(problems) THEN s
    ELSE With(ScriptsLoop(s, findall(s.xml, problems[n], "script"), 1),
              LAMBDA moved : ScriptProblemsLoop(moved, problems, n + 1))

\* latex2cs.filter_fix_hint_definitions(xhtml); the files that
\* ensure_general_hint_system_installed copies are outside the model.
filter_fix_hint_definitions(doc) ==
    Filtered(ScriptProblemsLoop([xml |-> doc, raised |-> FALSE],
                                findall(doc, 1, "problem"), 1))

FilterFixHintDefinitions ==
    \E self \in DOMAIN converters : \E o \in {filter_fix_hint_definitions(xhtml)} :
        /\ Handed(self, "filter_fix_hint_definitions", o)
        /\ UNCHANGED <<converters, DEFAULT_NPOINTS>>
        /\ UNCHANGED calcvars

(***************************************************************************)
(* abox.py: an answer box. abargs is the dictionary abox_args parses the   *)
(* arguments of the box into; the arguments that hold a list of quoted     *)
(* strings (prompts, answers, options, and expect for choices) are kept    *)
(* here as the list get_options splits them into. The boxes of this model  *)
(* name no check function that a mapcfn box has mapped, and give a custom  *)
(* box no options.                                                         *)
(***************************************************************************)
\* The values an argument or its default may have: None, an integer, a string.
PyNone == [t |-> "None", v |-> <<>>]

PyInt(n) == [t |-> "int", v |-> n]

PyStr(s) == [t |-> "str", v |-> s]

\* abargs.get(name, default)
Arg(abargs, name, default) ==
    IF name \in Keys(abargs) THEN PyStr(DictGet(abargs, name)) ELSE default

\* AnswerBox.stripquotes(x)
stripquotes(x) ==
    IF Len(x) >= 2 /\ x[1] = x[Len(x)] /\ x[1] \in {"\"", "'"}
    THEN SubSeq(x, 2, Len(x) - 1) ELSE x

\* "%r" % val of None, of an integer and of a string
Repr(val) ==
    IF val.t = "None" THEN <<"N", "o", "n", "e">>
    ELSE IF val.t = "int" THEN Decimal(val.v)
    ELSE IF "'" \in Range(val.v) /\ "\"" \notin Range(val.v)
    THEN <<"\"">> \o val.v \o <<"\"">>
    ELSE Quoted(val.v)

\* AnswerBox.copy_attrib(xs, name, default, newname, skip_if_empty, filter_fun)
\* with filter_fun either None (FALSE) or int (TRUE): the lines afterwards, and
\* whether it raised
copy_attrib(xs, abargs, name, default, newname, skip_if_empty, filter_fun) ==
    IF skip_if_empty /\ Arg(abargs, name, default).t = "None" THEN xs
    ELSE IF ~filter_fun
    THEN [xs EXCEPT !.lines = Append(@, Line("csq_" \o newname,
                                             Repr(Arg(abargs, name, default))))]
    ELSE IF Arg(abargs, name, default).t # "str"
            \/ int(Arg(abargs, name, default).v).raised
    THEN [xs EXCEPT !.raised = TRUE]
    ELSE [xs EXCEPT !.lines =
             Append(@, Line("csq_" \o newname,
                            Repr(PyInt(int(Arg(abargs, name, default).v).n))))]

\* The lines for an attempts argument, common to the three kinds of box.
Attempts(xs, abargs) ==
    IF "attempts" \in Keys(abargs) /\ ~int(stripquotes(DictGet(abargs, "attempts"))).raised
    THEN [xs EXCEPT !.lines =
             Append(@, Line("csq_nsubmits",
                            Decimal(int(stripquotes(DictGet(abargs, "attempts"))).n)))]
    ELSE xs

\* AnswerBox.quoteit(x)
quoteit(x) == <<"r\"\"\"">> \o x \o <<"\"\"\"">>

\* "[%s]" % ", ".join([quoteit(x) for x in options])
RECURSIVE Listed(_)
Listed(options) ==
    IF options = <<>> THEN <<>>
    ELSE quoteit(options[1]) \o (IF Len(options) > 1 THEN <<",", " ">> ELSE <<>>)
         \o Listed(Tail(options))

Bracketed(options) == <<"[">> \o Listed(options) \o <<"]">>

\* AnswerBox.get_options(abargs, arg) on the list the argument splits into:
\* every option stripped, and the first empty one removed
get_options(abargs, arg) ==
    LET options == [n \in DOMAIN DictGet(abargs, arg) |-> strip(DictGet(abargs, arg)[n])]
        empty == {n \in DOMAIN options : options[n] = <<>>}
    IN  IF empty = {} THEN options
        ELSE [n \in 1..(Len(options) - 1) |->
                 IF n < (CHOOSE m \in empty : \A l \in empty : m <= l)
                 THEN options[n] ELSE options[n + 1]]

\* The check function line of make_pythonic and make_bigbox.
CheckFunction(xs, abargs, otherwise) ==
    IF "cfn" \in Keys(abargs)
    THEN [xs EXCEPT !.lines = Append(@, Line("csq_check_function",
                                             stripquotes(DictGet(abargs, "cfn"))))]
    ELSE IF otherwise = <<>> THEN xs
    ELSE [xs EXCEPT !.lines = Append(@, Line("csq_check_function", otherwise))]

\* One step of a make_ method on the lines so far: nothing once it has raised.
Then(xs, next) == IF xs.raised THEN xs ELSE next

\* The prompts and answers of make_pythonic, and the lines for hints.
Prompts(abargs) ==
    IF "prompts" \in Keys(abargs) THEN get_options(abargs, "prompts") ELSE <<<<>>>>

Answers(abargs) ==
    IF "answers" \in Keys(abargs) THEN get_options(abargs, "answers")
    ELSE <<stripquotes(DictGet(abargs, "expect"))>>

Hinted(xs, abargs) ==
    IF "hints" \notin Keys(abargs) THEN xs
    ELSE [xs EXCEPT !.lines =
             @ \o <<Line("# HINT for:", stripquotes(DictGet(abargs, "hints"))),
                    Line("# ===HINT-DEFINITION===", <<>>),
                    Line("hs", <<"general_hint_system.HintSystem(hints=">>
                               \o stripquotes(DictGet(abargs, "hints")) \o <<")">>),
                    Line("csq_check_function",
                         <<"hs.catsoop_check_hint(csq_check_function)">>)>>]

Paired(xs, abargs) ==
    IF Len(Prompts(abargs)) # Len(Answers(abargs)) THEN [xs EXCEPT !.raised = TRUE]
    ELSE Hinted([xs EXCEPT !.lines =
                    @ \o <<Line("csq_prompts", Bracketed(Prompts(abargs))),
                           Line("csq_solns", Bracketed(Answers(abargs)))>>],
                abargs)

\* AnswerBox.make_pythonic(), DEFAULT being AnswerBox.DEFAULT_NPOINTS
Sized(xs, abargs) ==
    With(copy_attrib(xs, abargs, "rows", PyNone, "rows", TRUE, TRUE),
         LAMBDA rows :
            Then(rows,
                 With(copy_attrib(rows, abargs, "cols", PyNone, "cols", TRUE, TRUE),
                      LAMBDA cols :
                         Then(cols, copy_attrib(cols, abargs, "size", PyNone, "size",
                                                TRUE, FALSE)))))

OutputMode(sized) ==
    With(sized,
         LAMBDA xs : Then(xs, [xs EXCEPT !.lines =
                                  Append(@, Line("csq_output_mode",
                                                 <<"'", "formatted", "'">>))]))

make_pythonic(abargs, DEFAULT) ==
    IF "expect" \notin Keys(abargs) THEN [lines |-> <<>>, raised |-> TRUE]
    ELSE With(OutputMode(Sized(
                 copy_attrib(
                    copy_attrib(
                       copy_attrib(CheckFunction([lines |-> <<>>, raised |-> FALSE],
                                                 abargs, <<>>),
                                   abargs, "inline", PyNone, "inline", FALSE, FALSE),
                       abargs, "expect", PyNone, "soln", FALSE, FALSE),
                    abargs, "npoints", PyInt(DEFAULT), "npoints", FALSE, FALSE),
                 abargs)),
              LAMBDA body : Then(body, Paired(Attempts(body, abargs), abargs)))

\* AnswerBox.make_bigbox()
make_bigbox(abargs, DEFAULT) ==
    With(Sized(copy_attrib(CheckFunction([lines |-> <<>>, raised |-> FALSE], abargs,
                                         <<"lambda sub, soln: True">>),
                           abargs, "npoints", PyInt(DEFAULT), "npoints", FALSE, FALSE),
               abargs),
         LAMBDA body : Then(body, Attempts(body, abargs)))

\* The csq_options and csq_soln lines of make_multiplechoice.
Chosen(xs, renderer, options, expect) ==
    [xs EXCEPT !.lines =
        @ \o <<Line("csq_options", Bracketed(options)),
               Line("csq_soln",
                    IF renderer = "checkbox"
                    THEN <<"[">> \o [n \in DOMAIN options |->
                                        IF options[n] \in Range(expect)
                                        THEN "True" ELSE "False"]
                         \o <<"]">>
                    ELSE quoteit(expect[1]))>>]

\* AnswerBox.make_multiplechoice(renderer)
make_multiplechoice(abargs, renderer, DEFAULT) ==
    IF "expect" \notin Keys(abargs) \/ "options" \notin Keys(abargs)
    THEN [lines |-> <<>>, raised |-> TRUE]
    ELSE IF renderer # "checkbox" /\ get_options(abargs, "expect") = <<>>
    THEN [lines |-> <<>>, raised |-> TRUE]
    ELSE Attempts(
            Chosen(copy_attrib(
                      copy_attrib(
                         copy_attrib([lines |-> <<>>, raised |-> FALSE],
                                     abargs, "npoints", PyInt(DEFAULT), "npoints",
                                     FALSE, FALSE),
                         abargs, "prompt", PyStr(<<>>), "prompt", FALSE, FALSE),
                      abargs, "renderer", PyStr(<<renderer>>), "renderer", FALSE, FALSE),
                   renderer, get_options(abargs, "options"), get_options(abargs, "expect")),
            abargs)

\* The kind of question each type of box makes: "" for the types that are
\* not implemented, and for the two that only set something.
type2response(type) ==
    IF type \in {<<"custom">>, <<"simple">>} THEN "pythonic"
    ELSE IF type = <<"multichoice">> THEN "multiplechoice"
    ELSE IF type = <<"option">> THEN "dropdown"
    ELSE IF type = <<"shortans">> THEN "bigbox"
    ELSE IF type \in {<<"external">>, <<"numerical">>, <<"mapcfn">>, <<"config">>} THEN ""
    ELSE "missing"

\* The question element made of the lines xs under the attribute name="1".
Question(name, xs) ==
    [raised |-> xs.raised,
     made |-> ~xs.raised,
     el |-> Element("question", 0, << <<name, <<"1">>>> >>, xs.lines, <<"\n">>)]

\* AnswerBox(aboxstr).xmlstr: AnswerBox.abox2xmlstr, DEFAULT being
\* AnswerBox.DEFAULT_NPOINTS when the box is made
abox2xmlstr(abargs, DEFAULT) ==
    LET abtype == type2response(Arg(abargs, "type", PyStr(<<>>)).v)
    IN  IF abtype = "missing" THEN Question("", [lines |-> <<>>, raised |-> TRUE])
        ELSE IF abtype = "pythonic" THEN Question("pythonic", make_pythonic(abargs, DEFAULT))
        ELSE IF abtype = "multiplechoice"
        THEN Question("multiplechoice", make_multiplechoice(abargs, "checkbox", DEFAULT))
        ELSE IF abtype = "bigbox" THEN Question("bigbox", make_bigbox(abargs, DEFAULT))
        ELSE IF abtype = "dropdown"
        THEN Question("multiplechoice", make_multiplechoice(abargs, "dropdown", DEFAULT))
        ELSE [Question("", [lines |-> <<>>, raised |-> FALSE]) EXCEPT !.made = FALSE]

(***************************************************************************)
(* filter_fix_inline_prompts, filter_fix_question and convert              *)
(***************************************************************************)
\* element.getprevious(): the sibling before element i, 0 for None
getprevious(xml, i) ==
    LET before == {j \in 1..(i - 1) : xml[j].on /\ xml[j].parent = xml[i].parent}
    IN  IF before = {} THEN 0 ELSE CHOOSE j \in before : \A m \in before : m <= j

\* element[0]: the first child of element i, 0 if it has none
FirstChild(xml, i) ==
    IF HasChildren(xml, i)
    THEN CHOOSE j \in DOMAIN xml :
            /\ xml[j].on /\ xml[j].parent = i
            /\ \A m \in 1..(j - 1) : ~(xml[m].on /\ xml[m].parent = i)
    ELSE 0

\* Whether element i is a <p style="display:inline">.
InlineP(xml, i) ==
    i # 0 /\ xml[i].tag = "p" /\ get(xml[i], "style") = <<"display:inline">>

\* The element filter_fix_inline_prompts takes for the prompt of a question:
\* the sibling before it, or before its paragraph, or the first child of that.
PromptBefore(xml, question, prev) ==
    IF prev # 0 /\ xml[prev].tag = "p" /\ ~InlineP(xml, prev)
       /\ InlineP(xml, FirstChild(xml, prev))
    THEN FirstChild(xml, prev) ELSE prev

PrevOf(xml, question) ==
    PromptBefore(xml, question,
                 IF getprevious(xml, question) = 0
                    /\ xml[getparent(xml, question)].tag = "p"
                 THEN getprevious(xml, getparent(xml, question))
                 ELSE getprevious(xml, question))

\* What stands between the tags of a paragraph.
Inner(el) == IF el.text = <<>> THEN <<>> ELSE el.text[1].v

\* The body of the loop of filter_fix_inline_prompts for one question.
Prompted(xml, question, prev) ==
    IF ~InlineP(xml, prev) THEN [xml |-> xml, raised |-> FALSE]
    ELSE With(add_to_question(
                 [xml EXCEPT ![prev].on = FALSE], question,
                 IF Truthy(get(xml[question], "multiplechoice"))
                 THEN Line("csq_prompt", quoteit(Inner(xml[prev])))
                 ELSE Line("csq_prompts", <<"[">> \o quoteit(Inner(xml[prev])) \o <<"]">>),
                 None, FALSE),
              LAMBDA added : [xml |-> added.xml, raised |-> added.raised])

RECURSIVE PromptsLoop(_, _, _)
PromptsLoop(xml, questions, n) ==
    IF n > Len(questions) THEN [xml |-> xml, raised |-> FALSE]
    ELSE With(Prompted(xml, questions[n], PrevOf(xml, questions[n])),
              LAMBDA s : IF s.raised THEN [xml |-> xml, raised |-> TRUE]
                         ELSE PromptsLoop(s.xml, questions, n + 1))

\* latex2cs.filter_fix_inline_prompts(xhtml)
filter_fix_inline_prompts(doc) ==
    Filtered(PromptsLoop(doc, findall(doc, 1, "question"), 1))

\* latex2cs.filter_fix_question(xhtml): a question tag that starts with
\* pythonic="1", multiplechoice="1" or drag_and_drop="1" keeps that name only
filter_fix_question(doc) ==
    [i \in DOMAIN doc |->
        IF /\ doc[i].tag = "question"
           /\ doc[i].attrib # <<>>
           /\ doc[i].attrib[1][1] \in {"pythonic", "multiplechoice", "drag_and_drop"}
           /\ doc[i].attrib[1][2] = <<"1">>
        THEN [doc[i] EXCEPT !.attrib = <<<<doc[i].attrib[1][1], None>>>>]
        ELSE doc[i]]

\* What plastex2xhtml makes of the boxes of a problem at place problem, each
\* with the inline prompt written before it, if any: the elements, and whether
\* a box raised. DEFAULT is AnswerBox.DEFAULT_NPOINTS as the boxes find it.
RECURSIVE Boxes(_, _, _)
Boxes(items, problem, DEFAULT) ==
    IF items = <<>> THEN [els |-> <<>>, raised |-> FALSE]
    ELSE With(abox2xmlstr(items[1].abargs, DEFAULT),
              LAMBDA box :
                 IF box.raised THEN [els |-> <<>>, raised |-> TRUE]
                 ELSE With(Boxes(Tail(items), problem, DEFAULT),
                           LAMBDA rest :
                              [els |->
                                  (IF items[1].prompt = None THEN <<>>
                                   ELSE <<Element("p", problem,
                                                  << <<"style", <<"display:inline">>>> >>,
                                                  <<Line("", items[1].prompt)>>, <<"\n">>)>>)
                                  \o (IF box.made THEN <<[box.el EXCEPT !.parent = problem]>>
                                      ELSE <<>>)
                                  \o rest.els,
                               raised |-> rest.raised]))

\* The elements of one edXproblem environment: the problem, its boxes, and
\* its edXsolution if it has one.
Environment(p, problem, DEFAULT) ==
    With(Boxes(p.items, problem, DEFAULT),
         LAMBDA boxes :
            [els |-> <<Element("problem", 1, p.attrib, <<>>, <<"\n">>)>>
                     \o boxes.els
                     \o (IF p.solved
                         THEN <<Element("solution", problem, <<>>,
                                        <<Line("span", <<"T", "h", "i", "s">>)>>, <<"\n">>)>>
                         ELSE <<>>),
             raised |-> boxes.raised])

RECURSIVE Environments(_, _, _)
Environments(tex, problem, DEFAULT) ==
    IF tex = <<>> THEN [els |-> <<>>, raised |-> FALSE]
    ELSE With(Environment(tex[1], problem, DEFAULT),
              LAMBDA first :
                 With(Environments(Tail(tex), problem + Len(first.els), DEFAULT),
                      LAMBDA rest : [els |-> first.els \o rest.els,
                                     raised |-> first.raised \/ rest.raised]))

\* self.p2x = plastex2xhtml(..., abox=AnswerBox); self.p2x.convert(): the
\* document of a LaTeX source that is a sequence of edXproblem environments
plastex2xhtml(self, tex, DEFAULT) ==
    With(Environments(tex, 2, DEFAULT),
         LAMBDA made : [xml |-> <<Element("html", 0, <<>>, <<>>, <<>>)>> \o made.els,
                        self |-> self,
                        raised |-> made.raised])

\* AnswerBox.DEFAULT_NPOINTS after line 69 of convert, DEFAULT being what it
\* was before
class_default_kept(self, DEFAULT) == DEFAULT

class_default(self, DEFAULT) == self.default_npoints

\* The filters of self.filters that act on the documents of this model, in
\* the order of the list, each on what the one before handed on.
Parsed(made) ==
    With(made, LAMBDA s : IF s.raised THEN s ELSE [s EXCEPT !.xml = Document(@)])

Handing(s, o) ==
    IF o.raised THEN [s EXCEPT !.raised = TRUE] ELSE [s EXCEPT !.xml = o.xhtml]

Solved(made) ==
    With(made, LAMBDA s : IF s.raised THEN s
                          ELSE Parsed(filter_fix_solutions(s.self, s.xml)))

WithPrompts(made) ==
    With(made, LAMBDA s : IF s.raised THEN s
                          ELSE With(filter_fix_inline_prompts(s.xml),
                                    LAMBDA o : Handing(s, o)))

WithNames(made) ==
    With(made, LAMBDA s : IF s.raised THEN s
                          ELSE Parsed(filter_fix_question_names(s.self, s.xml)))

WithNsubmits(made) ==
    With(made, LAMBDA s : IF s.raised THEN s
                          ELSE With(filter_fix_nsubmits(s.xml), LAMBDA o : Handing(s, o)))

\* Whether the string is XML that str2xml parses: filter_fix_question has
\* left no attribute without a value in it.
Strict(doc) ==
    \A n \in DOMAIN doc : \A a \in DOMAIN doc[n].attrib : doc[n].attrib[a][2] # None

\* ffn(xhtml) for the filter of that name. An extra filter is the caller's:
\* "parsing" stands for one that parses the string with str2xml and hands
\* on its serialization, as most filters of the class do, "textual" for one
\* that works on the string as add_explanations does. The filters of the
\* class not named here find nothing to change in the documents of this
\* model.
Filter(ffn, made) ==
    With(made, LAMBDA s :
       IF s.raised THEN s
       ELSE CASE ffn = "filter_fix_solutions" -> Solved(s)
              [] ffn = "filter_fix_hint_definitions" ->
                    With(filter_fix_hint_definitions(s.xml), LAMBDA o : Handing(s, o))
              [] ffn = "filter_fix_inline_prompts" -> WithPrompts(s)
              [] ffn = "filter_fix_question_names" -> WithNames(s)
              [] ffn = "filter_fix_nsubmits" -> WithNsubmits(s)
              [] ffn = "filter_fix_question" -> [s EXCEPT !.xml = filter_fix_question(@)]
              [] ffn = "add_explanations" ->
                    [s EXCEPT !.xml = add_explanations(s.self, @).xhtml]
              [] ffn = "parsing" ->
                    IF Strict(s.xml) THEN Parsed(s) ELSE [s EXCEPT !.raised = TRUE]
              [] OTHER -> s)

\* for ffn in self.filters: xhtml = ffn(xhtml), from filter number n on; ran
\* lists the filters called so far
RECURSIVE Filtering(_, _, _)
Filtering(s, n, ran) ==
    IF s.raised \/ n > Len(s.self.filters)
    THEN [xml |-> s.xml, self |-> s.self, raised |-> s.raised, ran |-> ran]
    ELSE With(Filter(s.self.filters[n], s),
              LAMBDA o : Filtering(o, n + 1, Append(ran, s.self.filters[n])))

\* latex2cs.convert(ofn=None, skip_output=True) of converter self on the
\* source tex: what it returns, the converter afterwards, and the filters
\* it called
convert(self, tex, DEFAULT) ==
    Filtering(plastex2xhtml(self, tex, class_default(self, DEFAULT)), 1, <<>>)

(***************************************************************************)
(* LaTeX sources: edXproblem environments with answer boxes of the kinds   *)
(* abox.py makes questions of, and converters with several default_npoints *)
(***************************************************************************)
MaxConverters == 2

NpointsValues == {DefaultNpoints, 0, 5}

Cfn == <<"cfn", <<"c", "h", "k">>>>

CustomBox == <<<<"type", <<"custom">>>>, <<"size", <<"6", "0">>>>, <<"expect", <<"z">>>>,
               <<"inline", <<"1">>>>, Cfn>>

PlainBoxes ==
    {CustomBox,
     Append(CustomBox, <<"hints", <<"m", "y">>>>),
     CustomBox \o <<<<"prompts", <<<<"E", "0">>, <<"E", "1">>>>>>,
                    <<"answers", <<<<"s">>, <<".">>>>>>>>}

OtherBoxes ==
    {Append(CustomBox, <<"npoints", <<"5">>>>),
     Append(CustomBox, <<"attempts", <<"3">>>>),
     Append(CustomBox, <<"rows", <<"x">>>>),
     Append(CustomBox, <<"prompts", <<<<"E", "0">>, <<"E", "1">>>>>>),
     <<<<"type", <<"simple">>>>, <<"expect", <<"z">>>>, <<"rows", <<"2">>>>>>,
     <<<<"type", <<"custom">>>>, Cfn>>,
     <<<<"type", <<"multichoice">>>>, <<"expect", <<<<"a">>>>>>,
       <<"options", <<<<"a">>, <<" ", "b">>, <<>>>>>>>>,
     <<<<"type", <<"option">>>>, <<"expect", <<<<"b">>>>>>,
       <<"options", <<<<"a">>, <<"b">>>>>>, <<"npoints", <<"2">>>>>>,
     <<<<"type", <<"shortans">>>>, <<"rows", <<"4">>>>>>,
     <<<<"type", <<"external">>>>, Cfn>>,
     <<<<"expect", <<"z">>>>>>}

TenAttempts == <<<<"url_name", <<"s", "-", "1">>>>, <<"attempts", <<"1", "0">>>>>>

Sources ==
    {<<[attrib |-> TenAttempts, solved |-> s,
        items |-> <<[prompt |-> g, abargs |-> b]>>]>> :
        s \in BOOLEAN, g \in {None, <<"g", "=">>}, b \in PlainBoxes}
    \cup {<<[attrib |-> <<>>, solved |-> FALSE,
             items |-> <<[prompt |-> None, abargs |-> b]>>]>> : b \in OtherBoxes}
    \cup {<<[attrib |-> <<<<"attempts", <<"4">>>>>>, solved |-> TRUE,
             items |-> [n \in 1..k |->
                          [prompt |-> None,
                           abargs |-> IF n = 1 THEN CustomBox
                                      ELSE <<<<"type", <<"shortans">>>>>>]]]>> :
             k \in 2..MaxQuestions}
    \cup {[n \in 1..k |->
              [attrib |-> TenAttempts, solved |-> FALSE,
               items |-> <<[prompt |-> None, abargs |-> CustomBox]>>]] :
             k \in 2..MaxProblems}

\* latex2cs(fn) or latex2cs(fn, default_npoints=d)
Construct ==
    \E d \in NpointsValues :
        /\ Len(converters) < MaxConverters
        /\ converters' = Append(converters, latex2cs(<<>>, d))
        /\ UNCHANGED <<xhtml, DEFAULT_NPOINTS, history>>
        /\ UNCHANGED calcvars

\* Converter number self, made for the source tex, has run convert and got o.
Converting(self, tex, o) ==
    /\ xhtml' = IF o.raised THEN xhtml ELSE o.xml
    /\ history' = Append(history, [call |-> "convert", self |-> self, given |-> tex,
                                   returned |-> IF o.raised THEN None ELSE o.xml,
                                   raised |-> o.raised, ran |-> o.ran])
    /\ converters' = [converters EXCEPT ![self] = o.self]
    /\ DEFAULT_NPOINTS' = class_default(converters[self], DEFAULT_NPOINTS)
    /\ UNCHANGED calcvars

Convert ==
    /\ Len(history) < MaxCalls
    /\ \E self \in DOMAIN converters : \E tex \in Sources :
          \E o \in {convert(converters[self], tex, DEFAULT_NPOINTS)} :
              Converting(self, tex, o)

InitConvert ==
    /\ NoCalls
    /\ NoConverter

NextConvert == Construct \/ Convert

SpecConvert == InitConvert /\ [][NextConvert]_vars

\* The boxes of a source that make a question, in order.
RECURSIVE MakingIn(_)
MakingIn(items) ==
    IF items = <<>> THEN <<>>
    ELSE (IF type2response(Arg(items[1].abargs, "type", PyStr(<<>>)).v) \in {"", "missing"}
          THEN <<>> ELSE <<items[1].abargs>>) \o MakingIn(Tail(items))

RECURSIVE Making(_)
Making(tex) == IF tex = <<>> THEN <<>> ELSE MakingIn(tex[1].items) \o Making(Tail(tex))

\* The values the lines of a question give to name, in order.
ValuesOf(el, name) ==
    [n \in DOMAIN SelectSeq(el.text, LAMBDA line : line.k = name) |->
        SelectSeq(el.text, LAMBDA line : line.k = name)[n].v]

PlainCustom(tex) ==
    /\ Len(tex) = 1
    /\ Len(tex[1].items) = 1
    /\ Truthy(get(tex[1], "url_name"))
    /\ Truthy(get(tex[1], "attempts")) /\ ~int(get(tex[1], "attempts")).raised
    /\ Arg(tex[1].items[1].abargs, "type", PyStr(<<>>)).v = <<"custom">>
    /\ {"cfn", "size", "expect"} \subseteq Keys(tex[1].items[1].abargs)
    /\ Keys(tex[1].items[1].abargs) \cap {"npoints", "attempts", "rows", "cols"} = {}

\* The names of the lines the block of such a source is to consist of.
BlockOf(tex) ==
    <<"csq_check_function", "csq_inline", "csq_soln", "csq_npoints", "csq_size",
      "csq_output_mode", "csq_prompts", "csq_solns">>
    \o (IF "hints" \in Keys(tex[1].items[1].abargs)
        THEN <<"# HINT for:", "# ===HINT-DEFINITION===", "hs", "csq_check_function">>
        ELSE <<>>)
    \o (IF tex[1].solved THEN <<"csq_explanation">> ELSE <<>>)
    \o (IF tex[1].items[1].prompt # None THEN <<"csq_prompts">> ELSE <<>>)
    \o <<"csq_nsubmits">>

\* C15: what a converter constructed without default_npoints emits for a
\* custom box without npoints and attempts, in a problem with url_name and
\* attempts=N, is a <question pythonic> of exactly the lines
\* csq_check_function, csq_inline, csq_soln, csq_npoints = 0, csq_size,
\* csq_output_mode, csq_prompts, csq_solns, the hint lines if hints were
\* given, the csq_explanation if there is a solution, the csq_prompts of the
\* inline prompt if there is one, and csq_nsubmits = N, in this order.
CustomBlockLines ==
    \A c \in DOMAIN history :
        (/\ history[c].call = "convert"
         /\ converters[history[c].self].default_npoints = DefaultNpoints
         /\ PlainCustom(history[c].given)) =>
            /\ ~history[c].raised
            /\ findall(history[c].returned, 1, "question") = <<3>>
            /\ history[c].returned[3].attrib = <<<<"pythonic", None>>>>
            /\ [n \in DOMAIN history[c].returned[3].text |->
                   history[c].returned[3].text[n].k] = BlockOf(history[c].given)
            /\ ValuesOf(history[c].returned[3], "csq_npoints") = <<<<"0">>>>
            /\ ValuesOf(history[c].returned[3], "csq_nsubmits")
               = <<Decimal(int(get(history[c].given[1], "attempts")).n)>>

(***************************************************************************)
(* Literals written with gaps: a sign, a mantissa, an exponent and an SI   *)
(* suffix, each junction of two parts closed or holding up to MaxGap       *)
(* blanks, alone or as the second factor of a product                      *)
(***************************************************************************)
MaxGap == 1

Gaps == {[i \in 1..n |-> " "] : n \in 0..MaxGap}

GapExponents ==
    {<<>>} \cup {g1 \o <<"E">> \o g2 \o sg \o g3 \o <<"3">> :
                    g1 \in Gaps, g2 \in Gaps, g3 \in Gaps, sg \in {<<>>, <<"-">>}}

GapSuffixes == {<<>>} \cup {g \o <<"k">> : g \in Gaps}

GapLiterals ==
    {sg \o g \o mt \o ex \o sf :
        sg \in {<<>>, <<"-">>}, g \in Gaps, mt \in {<<"5">>, <<"2", ".", "5">>},
        ex \in GapExponents, sf \in GapSuffixes}

GapExprs == GapLiterals \cup {<<"2", "*">> \o lit : lit \in GapLiterals}

InitGap == InitWith(GapExprs, {<<>>}, {<<>>})

SpecGap == InitGap /\ [][Next]_vars

\* The token lists of the number nodes of a tree.
RECURSIVE NumberNodes(_)
NumberNodes(node) ==
    (IF node.name = "number" THEN {Concat(node.kids)} ELSE {})
    \cup UNION {NumberNodes(node.kids[i]) : i \in DOMAIN node.kids}

\* text with the exponent marker as the parser returns it.
MarkerUpper(text) == [i \in DOMAIN text |-> IF text[i] = "e" THEN "E" ELSE text[i]]

Occurs(part, text) ==
    \E i \in 1..(Len(text) - Len(part) + 1) : SubSeq(text, i, i + Len(part) - 1) = part

\* C21: no whitespace is accepted inside a numeric literal: whenever an input
\* parses, the sign, mantissa, exponent and suffix of each number of the tree
\* stand in the input one directly after the other, so that "5 k" or "2 E 3"
\* is never one number that carries the suffix or the exponent.
NumberPartsAdjacent ==
    tree # NoTree =>
        \A number \in NumberNodes(tree) : Occurs(number, MarkerUpper(math_expr))

(***************************************************************************)
(* Power chains to render: 2 to MaxPowers operands joined by "^", each a   *)
(* name, a number, a parenthesized sum or a parenthesized quotient, the    *)
(* chain alone or in parentheses of its own                                *)
(***************************************************************************)
MaxPowers == 3

PowerOperands ==
    {<<"a">>, <<"2">>, <<"(", "a", "+", "b", ")">>, <<"(", "a", "/", "b", ")">>}

PowerChains ==
    {Joined(ts, <<"^">>) : ts \in {ts \in SeqsUpTo(PowerOperands, MaxPowers) : Len(ts) >= 2}}

EnclosedChains == {<<"(">> \o chain \o <<")">> : chain \in PowerChains}

PowerExprs == PowerChains \cup EnclosedChains

InitPowers == InitWith(PowerExprs, {<<>>}, {<<>>})

SpecPowers == InitPowers /\ [][Next]_vars

\* An operand of PowerOperands as LaTeX writes it, with its own parentheses
\* and without them.
KeptLatex(op) ==
    CASE op = <<"a">> -> "a"
      [] op = <<"2">> -> "2"
      [] op = <<"(", "a", "+", "b", ")">> -> "(a+b)"
      [] op = <<"(", "a", "/", "b", ")">> -> "\\left(\\frac{a}{b}\\right)"

BareLatex(op) ==
    CASE op = <<"a">> -> "a"
      [] op = <<"2">> -> "2"
      [] op = <<"(", "a", "+", "b", ")">> -> "a+b"
      [] op = <<"(", "a", "/", "b", ")">> -> "\\frac{a}{b}"

\* a1^{a2^{...^{an}}}, the last operand without its parentheses.
RECURSIVE NestedLatex(_)
NestedLatex(ops) ==
    IF Len(ops) = 1 THEN BareLatex(ops[1])
    ELSE KeptLatex(ops[1]) \o "^{" \o NestedLatex(Tail(ops)) \o "}"

\* C22: latex_preview renders a power chain a1^a2^...^an, n >= 2, as the
\* right-nested a1^{a2^{...^{an}}} in which only the last operand is written
\* without its own parentheses, and the rendering is tall: parentheses around
\* the whole chain come out as \left( ... \right).
PowerChainNested ==
    call = "latex_preview" =>
        result = IF math_expr \in PowerChains
                 THEN Latex(NestedLatex(Operands(math_expr, {"^"})))
                 ELSE Latex("\\left("
                            \o NestedLatex(Operands(SubSeq(math_expr, 2, Len(math_expr) - 1),
                                                    {"^"}))
                            \o "\\right)")

\* Reached: "(a+b)^2^(a+b)" has rendered as (a+b)^{2^{a+b}}.
SumToThePowerOfSum ==
    /\ call = "latex_preview"
    /\ math_expr = <<"(", "a", "+", "b", ")", "^", "2", "^", "(", "a", "+", "b", ")">>
    /\ result = Latex("(a+b)^{2^{a+b}}")

(***************************************************************************)
(* Expressions to render, built in MaxWraps rounds: a name, a number with  *)
(* a suffix or with an exponent, two of them under one operator, these in  *)
(* parentheses or as a function's argument, and these again in parentheses *)
(* or followed by another operand                                          *)
(***************************************************************************)
MaxWraps == 2

TallOperators == {<<"+">>, <<"*">>, <<"/">>, <<"^">>, <<"|", "|">>}

TallLeaves == {<<"a">>, <<"5", "k">>, <<"2", "E", "3">>}

Enclosed(S) == {<<"(">> \o s \o <<")">> : s \in S}

Applying(f, S) == {f \o <<"(">> \o s \o <<")">> : s \in S}

RECURSIVE TallExprs(_)
TallExprs(round) ==
    IF round = 0
    THEN TallLeaves \cup {x \o op \o <<"a">> : x \in TallLeaves, op \in TallOperators}
    ELSE TallExprs(round - 1)
         \cup Enclosed(TallExprs(round - 1))
         \cup (IF round = 1
               THEN Applying(<<"s", "i", "n">>, TallExprs(0))
                    \cup Applying(<<"s", "q", "r", "t">>, TallExprs(0))
               ELSE {s \o op \o <<"a">> :
                        s \in Enclosed(TallExprs(0)), op \in TallOperators})

InitTall == InitWith(TallExprs(MaxWraps), {<<>>}, {<<>>})

SpecTall == InitTall /\ [][Next]_vars

\* The named nodes of a tree.
RECURSIVE Nodes(_)
Nodes(node) ==
    IF node.name = "tok" THEN {}
    ELSE {node} \cup UNION {Nodes(node.kids[i]) : i \in DOMAIN node.kids}

\* The node holds, at any depth, a division, a "^" or a number with an
\* exponent.
RECURSIVE Stacked(_)
Stacked(node) ==
    IF node.name = "tok" THEN node.s \in {<<"/">>, <<"^">>}
    ELSE IF node.name = "number" THEN \E i \in DOMAIN node.kids : node.kids[i].s = <<"E">>
    ELSE \E i \in DOMAIN node.kids : Stacked(node.kids[i])

\* The text holds a division, a "^" or an exponent marker.
StackedText(text) == \E i \in DOMAIN text : text[i] \in {"/", "^", "E"}

\* C23: a node's rendering is tall if and only if its sub-expression holds,
\* at any depth, a division, a "^" or a number in exponent notation; an atom
\* in parentheses is its inner rendering in \left( \right) when that is tall
\* and in ( ) otherwise; a power, parallel, product, sum or atom node with a
\* single child hands on the child's rendering unchanged.
TallIffStacked ==
    (call = "latex_preview" /\ tree # NoTree) =>
        /\ \A node \in Nodes(tree) :
              /\ render_node(node).tall = Stacked(node)
              /\ (node.name = "atom" /\ Len(node.kids) = 3) =>
                    /\ render_node(node).sans_parens = render_node(node.kids[2]).latex
                    /\ render_node(node).latex
                       = IF render_node(node.kids[2]).tall
                         THEN "\\left(" \o render_node(node.kids[2]).latex \o "\\right)"
                         ELSE "(" \o render_node(node.kids[2]).latex \o ")"
              /\ (/\ node.name \in {"power", "parallel", "product", "sum", "atom"}
                  /\ Len(node.kids) = 1) =>
                    render_node(node) = render_node(node.kids[1])
        /\ math_expr \in Enclosed(TallExprs(MaxWraps - 1)) =>
              result.m
              = IF StackedText(math_expr)
                THEN "\\left("
                     \o latex_preview(SubSeq(math_expr, 2, Len(math_expr) - 1),
                                      variables, functions, case_sensitive).result.m
                     \o "\\right)"
                ELSE "("
                     \o latex_preview(SubSeq(math_expr, 2, Len(math_expr) - 1),
                                      variables, functions, case_sensitive).result.m
                     \o ")"

\* Reached: "((a/a))" has rendered in two pairs of \left( \right).
TallThroughParentheses ==
    /\ call = "latex_preview"
    /\ math_expr = <<"(", "(", "a", "/", "a", ")", ")">>
    /\ result = Latex("\\left(\\left(\\frac{a}{a}\\right)\\right)")

(***************************************************************************)
(* Variable names to render: up to MaxParts parts, each a Greek spelling   *)
(* in some case, a plain word or nothing, with or without an underscore    *)
(* between two of them, under callers that supply the name or do not       *)
(***************************************************************************)
MaxParts == 3

NameParts ==
    {<<>>, <<"a">>, <<"p", "i">>, <<"P", "i">>, <<"P", "I">>, <<"h", "b", "a", "r">>}

Underscores == {<<>>, <<"_">>}

RECURSIVE PartNames(_)
PartNames(n) ==
    IF n = 1 THEN NameParts
    ELSE {name \o u \o part : name \in PartNames(n - 1), u \in Underscores, part \in NameParts}

VariableNames == PartNames(MaxParts) \ {<<>>}

NameVarEnvs == {<<>>, << <<<<"p", "i", "_", "a">>, Num(1, 1, 0)>> >>}

InitNamed == InitWith(VariableNames, NameVarEnvs, {<<>>})

SpecNamed == InitNamed /\ [][Next]_vars

\* A name or a part of one as the rule writes it: the macro of a Greek
\* spelling, hbar or infty, and otherwise the characters with each
\* underscore escaped.
Macro(name) ==
    IF Str(name) \in greek THEN "\\" \o Str(name)
    ELSE Str([i \in DOMAIN name |-> IF name[i] = "_" THEN "\\_" ELSE name[i]])

FirstUnderscore(name) == IndexOf(name, {"_"})

\* C24: latex_preview renders every variable name without raising, supplied
\* or not: a Greek spelling (lowercase or capitalized), hbar or infty becomes
\* a backslash and the name; a name with text after its first underscore
\* becomes X_{Y}, X and Y the parts before and after that underscore, each
\* written by the same rule; any other name keeps its characters, each
\* underscore escaped.
VariableNamesRendered ==
    call = "latex_preview" =>
        result = IF FirstUnderscore(math_expr) \in 1..(Len(math_expr) - 1)
                 THEN Latex(Macro(SubSeq(math_expr, 1, FirstUnderscore(math_expr) - 1))
                            \o "_{"
                            \o Macro(SubSeq(math_expr, FirstUnderscore(math_expr) + 1,
                                            Len(math_expr)))
                            \o "}")
                 ELSE Latex(Macro(math_expr))

\* Reached: pi_a_Pi, a name the caller did not supply, has rendered as
\* \pi_{a\_Pi}.
UnknownSubscriptedName ==
    /\ call = "latex_preview"
    /\ math_expr = <<"p", "i", "_", "a", "_", "P", "i">>
    /\ variables = <<>>
    /\ result = Latex("\\pi_{a\\_Pi}")

(***************************************************************************)
(* Literals to render: a sign or none, a mantissa, an exponent or none, a  *)
(* suffix or none; the literal alone, in parentheses, or as the second     *)
(* factor of a product, where its sign is its own                          *)
(***************************************************************************)
ShownMantissas == {<<"5">>, <<"2", ".", "5">>, <<".", "5">>, <<"5", ".">>}

ShownExponents == {<<>>, <<"E", "2">>, <<"e", "-", "1">>, <<"E", "+", "3">>}

ShownSuffixes == {<<>>, <<"k">>, <<"%">>}

ShownLiterals ==
    {sg \o mt \o ex \o sf :
        sg \in Signs, mt \in ShownMantissas, ex \in ShownExponents, sf \in ShownSuffixes}

AsFactor(S) == {<<"a", "*">> \o s : s \in S}

ShownExprs == ShownLiterals \cup Enclosed(ShownLiterals) \cup AsFactor(ShownLiterals)

InitShown == InitWith(ShownExprs, {<<>>}, {<<>>})

SpecShown == InitShown /\ [][Next]_vars

HasSuffix(lit) == lit[Len(lit)] \in SuffixChars

Unsuffixed(lit) == IF HasSuffix(lit) THEN SubSeq(lit, 1, Len(lit) - 1) ELSE lit

SuffixText(lit) == IF HasSuffix(lit) THEN "\\text{" \o lit[Len(lit)] \o "}" ELSE ""

MarkerAt(lit) == IndexOf(lit, {"e", "E"})

\* The literal with times between its mantissa and the power of ten.
LiteralLatex(lit, times) ==
    IF MarkerAt(lit) = 0 THEN Str(Unsuffixed(lit)) \o SuffixText(lit)
    ELSE Str(SubSeq(lit, 1, MarkerAt(lit) - 1)) \o times \o "10^{"
         \o Str(SubSeq(Unsuffixed(lit), MarkerAt(lit) + 1, Len(Unsuffixed(lit))))
         \o "}" \o SuffixText(lit)

\* What latex_preview should return for an expression of ShownExprs.
ShownLatex(expr, times) ==
    IF expr \in ShownLiterals THEN LiteralLatex(expr, times)
    ELSE IF expr[1] = "a" THEN "a\\cdot " \o LiteralLatex(SubSeq(expr, 3, Len(expr)), times)
    ELSE (IF MarkerAt(expr) = 0 THEN "(" ELSE "\\left(")
         \o LiteralLatex(SubSeq(expr, 2, Len(expr) - 1), times)
         \o (IF MarkerAt(expr) = 0 THEN ")" ELSE "\\right)")

\* C25: a literal in exponent notation (marker e or E) renders as
\* <mantissa>\times 10^{<exponent>} with the signs of mantissa and exponent
\* kept, and is tall; a literal without exponent renders as its own
\* characters and is not tall; an SI suffix is appended as \text{<suffix>}
\* in both cases.
ExponentAsTimesTen ==
    call = "latex_preview" => result = Latex(ShownLatex(math_expr, "\\times "))

\* C25, amended: as above, the exponent notation rendered as
\* <mantissa>\!\times\!10^{<exponent>}: the times sign stands between two
\* negative thin spaces and no blank follows it.
ExponentAsTightTimesTen ==
    call = "latex_preview" => result = Latex(ShownLatex(math_expr, "\\!\\times\\!"))

\* Reached: "(-2.5e-1k)" has rendered as \left(-2.5\!\times\!10^{-1}\text{k}\right).
SignedExponentEnclosed ==
    /\ call = "latex_preview"
    /\ math_expr = <<"(", "-", "2", ".", "5", "e", "-", "1", "k", ")">>
    /\ result = Latex("\\left(-2.5\\!\\times\\!10^{-1}\\text{k}\\right)")

(***************************************************************************)
(* Documents of problems with scripts: up to MaxProblems problems, each of *)
(* up to MaxItems children, a child being a script that defines hints, a   *)
(* question with hints as make_pythonic writes it, or a question without   *)
(***************************************************************************)
MaxItems == 3

ItemKinds == {"script", "hinted", "plain"}

\* Child number n of the problem at place problem.
HintItem(kind, problem, n) ==
    IF kind = "script"
    THEN Element("script", problem, <<>>, <<Line("hints", Numbered(n))>>, <<"\n">>)
    ELSE Element("question", problem, << <<"pythonic", <<"1">>>> >>,
                 <<Line("csq_soln", Numbered(n))>>
                 \o (IF kind = "hinted"
                     THEN <<Line("# HINT for:", <<"h">>),
                            Line(HintKey, <<>>),
                            Line("hs", <<"general_hint_system.HintSystem(hints=h)">>),
                            Line("csq_check_function",
                                 <<"hs.catsoop_check_hint(csq_check_function)">>)>>
                     ELSE <<>>),
                 <<"\n">>)

HintProblem(kinds, problem, n) ==
    <<Element("problem", 1, <<>>, <<>>, <<>>)>>
    \o [m \in DOMAIN kinds |-> HintItem(kinds[m], problem, n + m - 1)]

RECURSIVE HintProblems(_, _, _)
HintProblems(ps, problem, n) ==
    IF ps = <<>> THEN <<>>
    ELSE HintProblem(ps[1], problem, n)
         \o HintProblems(Tail(ps), problem + Len(ps[1]) + 1, n + Len(ps[1]))

KindLists(n) == {<<>>} \cup SeqsUpTo(ItemKinds, n)

HintDocuments ==
    {<<Element("html", 0, <<>>, <<>>, <<>>)>> \o HintProblems(<<kinds>>, 2, 1) :
        kinds \in KindLists(MaxItems)}
    \cup {<<Element("html", 0, <<>>, <<>>, <<>>)>> \o HintProblems(ps, 2, 1) :
             ps \in [1..MaxProblems -> KindLists(MaxItems - 1)]}

InitHints ==
    /\ NoCalls
    /\ xhtml \in HintDocuments
    /\ converters = <<latex2cs(<<>>, DefaultNpoints)>>
    /\ DEFAULT_NPOINTS = 0
    /\ history = <<>>

NextHints == FilterFixHintDefinitions

SpecHints == InitHints /\ [][NextHints]_vars

\* The scripts and the questions of problem i, in document order.
ScriptsOf(xml, i) == findall(xml, i, "script")

\* Where the line for name stands among the lines, 0 if nowhere.
LineAt(text, name) ==
    IF \E n \in DOMAIN text : text[n].k = name
    THEN CHOOSE n \in DOMAIN text : text[n].k = name /\ \A m \in 1..(n - 1) : text[m].k # name
    ELSE 0

\* The lines of a question once code has been put into it.
WithCode(text, code) ==
    IF LineAt(text, HintKey) = 0 THEN <<code>> \o text
    ELSE [n \in DOMAIN text |-> IF n = LineAt(text, HintKey) THEN code ELSE text[n]]

\* Every problem of the document that holds a script holds a question.
ScriptsHaveQuestions(xml) ==
    \A i \in DOMAIN xml :
        (xml[i].tag = "problem" /\ ScriptsOf(xml, i) # <<>>) =>
            findall(xml, i, "question") # <<>>

\* C26: filter_fix_hint_definitions takes every script of a problem out of
\* the document and puts its text into a question of that problem: in place
\* of the marker line when the question holds one, so that the definitions
\* stand after the '# HINT for:' line and before the 'hs = ...' line, and
\* else right after the start tag; a question with hints whose problem holds
\* no script keeps its lines, the marker among them.
HintDefinitionsMoved ==
    (/\ history # <<>>
     /\ LastCall.call = "filter_fix_hint_definitions"
     /\ ScriptsHaveQuestions(LastCall.given)) =>
        /\ ~LastCall.raised
        /\ findall(LastCall.returned, 1, "script") = <<>>
        /\ Len(findall(LastCall.returned, 1, "question"))
           = Len(findall(LastCall.given, 1, "question"))
        /\ \A j \in DOMAIN LastCall.given :
              LastCall.given[j].tag = "script" =>
                 \E n \in DOMAIN findall(LastCall.given, 1, "question") :
                    /\ Enclosing(LastCall.given, findall(LastCall.given, 1, "question")[n])
                       = Enclosing(LastCall.given, j)
                    /\ LastCall.returned[findall(LastCall.returned, 1, "question")[n]].text
                       = WithCode(LastCall.given[findall(LastCall.given, 1,
                                                         "question")[n]].text,
                                  LastCall.given[j].text[1])
                    /\ HasLine(LastCall.given[findall(LastCall.given, 1, "question")[n]],
                               HintKey) =>
                          /\ LastCall.returned[findall(LastCall.returned, 1,
                                                       "question")[n]].text[
                                LineAt(LastCall.given[findall(LastCall.given, 1,
                                                              "question")[n]].text,
                                       "# HINT for:") + 1]
                             = LastCall.given[j].text[1]
                          /\ LastCall.returned[findall(LastCall.returned, 1,
                                                       "question")[n]].text[
                                LineAt(LastCall.given[findall(LastCall.given, 1,
                                                              "question")[n]].text,
                                       "# HINT for:") + 2].k = "hs"
        /\ \A n \in DOMAIN findall(LastCall.given, 1, "question") :
              ScriptsOf(LastCall.given,
                        Enclosing(LastCall.given,
                                  findall(LastCall.given, 1, "question")[n])) = <<>> =>
                 LastCall.returned[findall(LastCall.returned, 1, "question")[n]].text
                 = LastCall.given[findall(LastCall.given, 1, "question")[n]].text


(***************************************************************************)
(* Converters with extra filters: none, one that parses the string it is   *)
(* handed, or one that works on the string as text; and a few sources, of  *)
(* one problem with a box that makes a question or with no box, and with a *)
(* solution or without                                                     *)
(***************************************************************************)
ExtraFilters == {<<>>, <<"parsing">>, <<"textual">>}

ShortSources ==
    {<<[attrib |-> TenAttempts, solved |-> s, items |-> items]>> :
        s \in BOOLEAN, items \in {<<>>, <<[prompt |-> None, abargs |-> CustomBox]>>}}

\* latex2cs(fn) or latex2cs(fn, extra_filters=[f])
ConstructWith ==
    \E extra_filters \in ExtraFilters :
        /\ Len(converters) < MaxConverters
        /\ converters' = Append(converters, latex2cs(extra_filters, DefaultNpoints))
        /\ UNCHANGED <<xhtml, DEFAULT_NPOINTS, history>>
        /\ UNCHANGED calcvars

ConvertShort ==
    /\ Len(history) < MaxCalls
    /\ \E self \in DOMAIN converters : \E tex \in ShortSources :
          \E o \in {convert(converters[self], tex, DEFAULT_NPOINTS)} :
              Converting(self, tex, o)

NextFilters == ConstructWith \/ ConvertShort

SpecFilters == InitConvert /\ [][NextFilters]_vars

\* C27: in every convert() that came to filter_fix_question, of a converter
\* with or without extra filters, filter_fix_question was called right
\* after pp_xml and right before add_explanations, and add_explanations was
\* the last filter called: no filter was handed the string after it, and
\* none that parses its input raised on what filter_fix_question had made.
FilterFixQuestionNextToLast ==
    \A c \in DOMAIN history :
        (history[c].call = "convert" /\ IndexOf(history[c].ran, {"filter_fix_question"}) > 0) =>
            /\ IndexOf(history[c].ran, {"filter_fix_question"}) = Len(history[c].ran) - 1
            /\ history[c].ran[Len(history[c].ran) - 2] = "pp_xml"
            /\ history[c].ran[Len(history[c].ran)] = "add_explanations"
            /\ ~history[c].raised


(***************************************************************************)
(* Expressions that name variables and functions: one or two operands      *)
(* joined by an operator, an operand being a name, a number, a call, a     *)
(* call of a name that is also a variable, or one of these in parentheses; *)
(* and expressions that break off inside a call or a parenthesis           *)
(***************************************************************************)
UsedOperands ==
    {<<"x">>, <<"y", "_", "1">>, <<"2">>, <<"f", "(", "x", ")">>, <<"x", "(", "y", ")">>,
     <<"(", "y", ")">>, <<"f", " ", "(", " ", "x", ")">>, <<"(", "(", "f", ")", ")">>,
     <<"g", "(", "f", "(", "2", ")", ")">>, <<"f", "(", "(", "f", ")", ")">>}

UsedOperators == {<<"+">>, <<"*">>, <<"^">>, <<"|", "|">>, <<" ", "-", " ">>}

BrokenExprs ==
    {<<"f", "(", "x">>, <<"x", "+", "(", "y">>, <<"x", " ", "(", "y", ")">>,
     <<"f", "(", "x", ")", "y">>, <<"g", "(", "x", "+", "(", "y", ")">>,
     <<"x", "^", "(", "y">>, <<"2", "*", "-", "x">>}

UsedExprs ==
    UsedOperands
    \cup {a \o op \o b : a \in UsedOperands, b \in UsedOperands, op \in UsedOperators}
    \cup BrokenExprs

InitUsed == InitWith(UsedExprs, {<<>>}, {<<>>})

SpecUsed == InitUsed /\ [][Next]_vars

\* C28: once an expression has been parsed, variables_used is the set of
\* the names in the variable nodes of the tree and functions_used the set
\* of the names in its function nodes; nothing else is in either, neither a
\* name met in an alternative that was given up nor, as a variable, the
\* name of a function that is called.
UsedAreTheNamesOfTheTree ==
    (call # "none" /\ tree # NoTree) =>
        /\ variables_used = TreeNames(tree, "variable")
        /\ functions_used = TreeNames(tree, "function")

\* Reached: g(f(2))^(y) has been parsed; f and g were each tried as a
\* function first and y was found in a parenthesis, after the number and
\* the function had been tried there.
CallsAndNamesRecorded ==
    /\ call # "none"
    /\ math_expr = <<"g", "(", "f", "(", "2", ")", ")", "^", "(", "y", ")">>
    /\ tree # NoTree
    /\ variables_used = {<<"y">>}
    /\ functions_used = {<<"f">>, <<"g">>}


(***************************************************************************)
(* Calls that can fail at each step of evaluator: blank expressions,       *)
(* expressions that do not parse and expressions that do, naming variables *)
(* and functions that the caller's mappings define or leave undefined      *)
(***************************************************************************)
OrderExprs ==
    {<<>>, <<" ">>, <<"2">>, <<"x">>, <<"Z">>, <<"f", "(", "2", ")">>, <<"f", "(", "x", ")">>,
     <<"f", "(", "Z", ")">>, <<"x", "+", "f", "(", "2", ")">>,
     <<"f", "(", "2">>, <<"f", "(", "x">>, <<"f", "(", "Z">>, <<"x", "+", "(", "Z">>,
     <<"x", "+">>, <<"Z", "+">>, <<"2", "+">>, <<"2", "*", "-", "Z">>, <<"2", "*", "-", "x">>,
     <<"h", "(", "Z", ")", "x">>, <<"(", "f", "(", "2", ")">>}

InitOrder == InitWith(OrderExprs, IdentVarEnvs, IdentFunEnvs)

SpecOrder == InitOrder /\ [][Next]_vars

\* The names the parser has recorded that the call leaves undefined.
Unknown ==
    {v \in variables_used :
        casify(case_sensitive, v) \notin MergedNames(DEFAULT_VARIABLES, variables)}
    \cup {f \in functions_used :
        casify(case_sensitive, f) \notin MergedNames(DEFAULT_FUNCTIONS, functions)}

\* C29: evaluator goes through the blank check, the parse, the check of
\* the names and the reduction of the tree in this order and stops at the
\* first that fails: an expression that does not parse gives the parse
\* error whatever names it holds, and a call that ends in the parse error
\* or in UndefinedVariable has not come to reduce the tree, where alone a
\* variable is looked up or a function of the caller is called.
EvaluatorStepsInOrder ==
    call = "evaluator" =>
        /\ steps # <<>>
        /\ steps = SubSeq(<<"strip", "parse_algebra", "add_defaults", "check_variables",
                            "reduce_tree">>, 1, Len(steps))
        /\ IsBlank(math_expr) => steps = <<"strip">>
        /\ (~IsBlank(math_expr) /\ tree = NoTree) =>
              /\ result = Exc("ParseException", "")
              /\ steps = <<"strip", "parse_algebra">>
        /\ (tree # NoTree /\ Unknown # {}) =>
              /\ result.k = "exc" /\ result.x = "UndefinedVariable"
              /\ steps = <<"strip", "parse_algebra", "add_defaults", "check_variables">>
        /\ (result.k = "exc" /\ result.x \in {"ParseException", "UndefinedVariable"}) =>
              \A n \in DOMAIN steps : steps[n] # "reduce_tree"

\* Reached: f(Z breaks off in a call of f, which the caller has defined,
\* and names Z, which nobody has; evaluator has raised the parse error.
BrokenAndUndefined ==
    /\ call = "evaluator"
    /\ math_expr = <<"f", "(", "Z">>
    /\ functions # <<>>
    /\ <<"Z">> \in Unknown
    /\ result = Exc("ParseException", "")
    /\ steps = <<"strip", "parse_algebra">>


(***************************************************************************)
(* Signs: a signed literal after an operator, alone or raised to a power;  *)
(* a signed product at the start of the expression; and a sign before a    *)
(* name, a call or a parenthesis after an operator                         *)
(***************************************************************************)
SignedLiterals == {s \o lit : s \in {<<"+">>, <<"-">>}, lit \in {<<"3">>, <<"1">>}}

SignOperators == {<<"*">>, <<"/">>, <<"^">>, <<"|", "|">>, <<"+">>, <<"-">>}

RaisedOrNot == {<<>>, <<"^", "2">>}

LeftOperands == {<<"2">>, <<"4">>}

\* a op literal tail, the literal as it is written or in parentheses
AfterOperator(a, op, lit, tail, enclosed) ==
    a \o op \o (IF enclosed THEN <<"(">> \o lit \o <<")">> ELSE lit) \o tail

LeadingProducts ==
    {<<"3">>, <<"3", "^", "2">>, <<"3", "^", "2", "*", "2">>, <<"3", "*", "2", "^", "2">>,
     <<"3", "|", "|", "6">>}

FurtherTerms == {<<>>, <<"+", "1">>, <<"-", "3", "^", "2">>}

\* s product more, the product as it is written or in parentheses
AtStart(s, product, more, enclosed) ==
    s \o (IF enclosed THEN <<"(">> \o product \o <<")">> ELSE product) \o more

Unsignable == {<<"x">>, <<"f", "(", "2", ")">>, <<"(", "3", ")">>, <<"(", "x", ")">>}

SignedUnsignable ==
    {a \o op \o s \o u : a \in LeftOperands, op \in SignOperators \ {<<"+">>, <<"-">>},
                         s \in {<<"+">>, <<"-">>}, u \in Unsignable}

SignExprs ==
    {AfterOperator(a, op, lit, tail, FALSE) :
        a \in LeftOperands, op \in SignOperators, lit \in SignedLiterals, tail \in RaisedOrNot}
    \cup {AtStart(s, p, more, FALSE) :
            s \in {<<"+">>, <<"-">>}, p \in LeadingProducts, more \in FurtherTerms}
    \cup SignedUnsignable

InitSigns == InitWith(SignExprs, {<<>>}, {<<>>})

SpecSigns == InitSigns /\ [][Next]_vars

\* What evaluator returns for the expression, called as in the state.
ValueOf(expr) == evaluator(variables, functions, expr, case_sensitive).result

\* C30: after an operator a sign written before a literal belongs to the
\* literal, so that the expression has the value it has with the signed
\* literal in parentheses (2*-3^2 is 18); a sign at the start belongs to the
\* whole first product, so that the expression has the value it has with
\* that product in parentheses (-3^2 is -9); and a sign before a name, a
\* call or a parenthesis after *, /, ^ or || does not parse.
SignsBind ==
    call = "evaluator" =>
        /\ \A a \in LeftOperands, op \in SignOperators, lit \in SignedLiterals,
              tail \in RaisedOrNot :
              math_expr = AfterOperator(a, op, lit, tail, FALSE) =>
                  /\ result.k # "exc"
                  /\ result = ValueOf(AfterOperator(a, op, lit, tail, TRUE))
        /\ \A s \in {<<"+">>, <<"-">>}, p \in LeadingProducts, more \in FurtherTerms :
              math_expr = AtStart(s, p, more, FALSE) =>
                  /\ result.k # "exc"
                  /\ result = ValueOf(AtStart(s, p, more, TRUE))
        /\ math_expr = <<"2", "*", "-", "3", "^", "2">> => result = Num(18, 1, 0)
        /\ math_expr = <<"-", "3", "^", "2">> => result = Num(-9, 1, 0)
        /\ math_expr \in SignedUnsignable => result = Exc("ParseException", "")

\* Reached: 2*-3^2 has been evaluated to 18.
SignedLiteralSquared ==
    /\ call = "evaluator"
    /\ math_expr = <<"2", "*", "-", "3", "^", "2">>
    /\ tree # NoTree
    /\ result = Num(18, 1, 0)

====
